---- MODULE Spec2Model ----
(***************************************************************************)
(* A model of the ProviderData state engine of edr_provider                *)
(* (crates/edr_provider/src/data.rs): the blockchain, the mempool, the     *)
(* irregular state, the per-block state cache, the snapshots, the filters  *)
(* and the mining pipeline, with one action per public operation.          *)
(*                                                                         *)
(* The operations are written as operators from an engine record `d` (the  *)
(* fields of ProviderData) to a result record, so that an operation that   *)
(* calls other operations (send_transaction, mine_and_commit_blocks) is    *)
(* one atomic action, as it is for a caller holding `&mut self`.           *)
(***************************************************************************)
EXTENDS Integers, Sequences, FiniteSets, TLC

VARIABLES
    blockchain,                   \* Seq of blocks; block number n is blockchain[n + 1]
    irregular_state,              \* block number -> StateOverride
    mem_pool,                     \* MemPool
    beneficiary,                  \* coinbase
    prev_randao_generator,        \* RandomHashGenerator
    block_time_offset_seconds,    \* i64
    is_auto_mining,               \* bool
    next_block_base_fee_per_gas,  \* Option<U256>
    next_block_timestamp,         \* Option<u64>
    next_snapshot_id,             \* u64
    snapshots,                    \* BTreeMap<u64, Snapshot>
    filters,                      \* HashMap<U256, Filter>
    last_filter_id,               \* U256
    impersonated_accounts,        \* HashSet<Address>
    min_gas_price,                \* U256
    local_accounts,               \* IndexMap<Address, SecretKey>: its addresses
    block_state_cache,            \* LruCache<StateId, State>, least recently used first
    current_state_id,             \* StateId
    block_number_to_state_id,     \* BTreeMap<u64, StateId>
    initial_config,               \* ProviderConfig, kept for reset
    allow_blocks_with_same_timestamp, \* bool, from the configuration
    now,                          \* the wall clock, in whole seconds
    minted_state_ids,             \* history: the StateIds minted by add_state_to_cache
    returned_snapshot_ids,        \* history: the ids returned by make_snapshot
    returned_filter_ids,          \* history: the ids returned by add_*_filter
    taken,                        \* history: snapshot id -> the engine as it was at make_snapshot
    ops,                          \* history: the number of operations called so far
    ret,                          \* the last operation, its arguments and its result
    builder,                      \* BlockBuilder: the Option inside the Mutex
    mutex,                        \* BlockBuilder: the call that holds the Mutex, or 0
    futures,                      \* BlockBuilder: call -> its method, arguments, position and result
    acquired,                     \* history: the calls in the order they acquired the Mutex
    inner_calls                   \* history: the calls made on the inner builder

vars == <<blockchain, irregular_state, mem_pool, beneficiary, prev_randao_generator,
          block_time_offset_seconds, is_auto_mining, next_block_base_fee_per_gas,
          next_block_timestamp, next_snapshot_id, snapshots, filters, last_filter_id,
          impersonated_accounts, min_gas_price, local_accounts,
          block_state_cache, current_state_id, block_number_to_state_id,
          initial_config, allow_blocks_with_same_timestamp, now,
          minted_state_ids, returned_snapshot_ids, returned_filter_ids, taken, ops, ret,
          builder, mutex, futures, acquired, inner_calls>>

\* the variables of the napi BlockBuilder object
builder_vars == <<builder, mutex, futures, acquired, inner_calls>>

----------------------------------------------------------------------------
(* Bounds of the model *)

\* the calls made on one BlockBuilder object
MaxCalls == 3
CallIds == 1..MaxCalls

\* the wall clock runs from 0 to MaxNow
MaxNow == 1
\* make_snapshot is not called once next_snapshot_id exceeds this
MaxSnapshotId == 2
\* add_*_filter is not called once last_filter_id reaches this
MaxFilterId == 3
\* block_time_offset_seconds is not increased above this by increase_block_time
MaxOffset == 2
\* seconds a polled filter stays alive (the Filter type's deadline)
FilterTtl == 0
\* no mining step is taken once the prev-randao chain has advanced this far
MaxRandao == 4
\* the call of mine_and_commit_block, within one operation, that may return an error
MaxFailAt == 2

----------------------------------------------------------------------------
(* Option<T>: None is the empty tuple, Some(x) the 1-tuple *)

None == <<>>
Some(x) == <<x>>
IsSome(o) == Len(o) = 1
IsNone(o) == Len(o) = 0
Unwrap(o) == o[1]

Max(a, b) == IF a >= b THEN a ELSE b

\* f with key k set to v (BTreeMap::insert / HashMap::insert)
MapInsert(f, k, v) == [x \in DOMAIN f \cup {k} |-> IF x = k THEN v ELSE f[x]]
MapRemove(f, k) == [x \in DOMAIN f \ {k} |-> f[x]]
EmptyMap == [x \in {} |-> 0]

----------------------------------------------------------------------------
(* Accounts, states and transactions *)

Address == {"a1", "a2"}
Coinbase == {"c0", "c1"}

\* AccountInfo plus the account's one storage slot
AccountInfo(balance, nonce, code, storage) ==
    [balance |-> balance, nonce |-> nonce, code |-> code, storage |-> storage]

\* the genesis accounts of the configuration
GenesisState == [a \in Address |-> AccountInfo(2, 0, 0, 0)]

\* a state diff (a map from the changed accounts to their new contents) applied to a state
ApplyDiff(state, diff) ==
    [a \in Address |-> IF a \in DOMAIN diff THEN diff[a] ELSE state[a]]

\* the state root of a state: states with the same contents have the same root
StateRoot(state) == state

Transaction(hash, caller, nonce, gas_limit, value) ==
    [hash |-> hash, caller |-> caller, nonce |-> nonce, gas_limit |-> gas_limit,
     value |-> value]

\* the signed transactions a caller may submit
Transactions ==
    { Transaction(1, "a1", 0, 1, 1),
      Transaction(2, "a1", 1, 2, 1),
      Transaction(3, "a2", 0, 2, 2) }

\* the ProviderConfigs an instance is built from (and rebuilt from by reset)
Configs ==
    [block_gas_limit : {2}, coinbase : {"c0"}, auto_mine : BOOLEAN,
     allow_blocks_with_same_timestamp : BOOLEAN, hardfork : {"Merge"},
     min_gas_price : {0}]

\* SpecId: the hardforks of the model, oldest first
Hardforks == <<"Berlin", "London", "Merge">>

HardforkRank(hardfork) == CHOOSE i \in DOMAIN Hardforks : Hardforks[i] = hardfork

\* the limits a caller passes to set_block_gas_limit
GasLimits == {1, 2}

----------------------------------------------------------------------------
(* MemPool (edr_evm): the transactions in insertion order, the block gas    *)
(* limit, and the committed nonce of each sender as of the last admission   *)
(* or update, which splits the pool into pending (contiguous nonces from    *)
(* the committed nonce) and future transactions.                            *)

MemPoolNew(block_gas_limit) ==
    [block_gas_limit |-> block_gas_limit,
     transactions |-> <<>>,
     committed |-> [a \in Address |-> 0]]

MemPoolHas(mp, caller, nonce) ==
    \E i \in 1..Len(mp.transactions) :
        mp.transactions[i].caller = caller /\ mp.transactions[i].nonce = nonce

RECURSIVE NextNonceFrom(_, _, _)
NextNonceFrom(mp, caller, n) ==
    IF MemPoolHas(mp, caller, n) THEN NextNonceFrom(mp, caller, n + 1) ELSE n

\* mempool::account_next_nonce: the committed nonce plus the pending transactions
MemPoolAccountNextNonce(mp, state, caller) ==
    NextNonceFrom(mp, caller, state[caller].nonce)

IsPendingTx(mp, t) ==
    /\ t.nonce >= mp.committed[t.caller]
    /\ t.nonce < NextNonceFrom(mp, t.caller, mp.committed[t.caller])

\* MemPool::has_pending_transactions
HasPendingTransactions(mp) ==
    \E i \in 1..Len(mp.transactions) : IsPendingTx(mp, mp.transactions[i])

\* mempool::has_transactions: pending or future
HasTransactions(mp) == Len(mp.transactions) > 0

MemPoolHashes(mp) == {mp.transactions[i].hash : i \in 1..Len(mp.transactions)}

\* MemPool::add_transaction: the admission checks, then the insertion
MemPoolAddError(mp, state, t) ==
    IF t.hash \in MemPoolHashes(mp) THEN "TransactionAlreadyExists"
    ELSE IF t.gas_limit > mp.block_gas_limit THEN "ExceedsBlockGasLimit"
    ELSE IF t.nonce < MemPoolAccountNextNonce(mp, state, t.caller) THEN "NonceTooLow"
    ELSE IF t.value > state[t.caller].balance THEN "InsufficientFunds"
    ELSE "none"

MemPoolAddTransaction(mp, state, t) ==
    [mp EXCEPT !.transactions = Append(@, t),
               !.committed = [@ EXCEPT ![t.caller] = state[t.caller].nonce]]

IsValidTx(t, block_gas_limit, state) ==
    /\ t.gas_limit <= block_gas_limit
    /\ t.value <= state[t.caller].balance
    /\ t.nonce >= state[t.caller].nonce

\* MemPool::update: drop what the committed state invalidates
MemPoolUpdate(mp, state) ==
    [mp EXCEPT !.transactions =
                   SelectSeq(@, LAMBDA t : IsValidTx(t, mp.block_gas_limit, state)),
               !.committed = [a \in Address |-> state[a].nonce]]

\* MemPool::set_block_gas_limit: set the limit and re-validate every entry
MemPoolSetBlockGasLimit(mp, state, limit) ==
    MemPoolUpdate([mp EXCEPT !.block_gas_limit = limit], state)

\* MemPool::remove_transaction
MemPoolRemoveTransaction(mp, hash) ==
    [mp EXCEPT !.transactions = SelectSeq(@, LAMBDA t : t.hash # hash)]

----------------------------------------------------------------------------
(* RandomHashGenerator (edr_evm): a hash chain, and the value primed by     *)
(* set_next.  The n-th value of the chain is modelled by n.                 *)

RandaoNew == [seed |-> 0, primed |-> None]

\* RandomHashGenerator::next_value: the primed value if any, else the next of the chain
RandaoNextValue(g) ==
    IF IsSome(g.primed)
    THEN [value |-> Unwrap(g.primed), generator |-> [g EXCEPT !.primed = None]]
    ELSE [value |-> g.seed + 1, generator |-> [g EXCEPT !.seed = @ + 1]]

\* RandomHashGenerator::set_next
RandaoSetNext(g, v) == [g EXCEPT !.primed = Some(v)]

----------------------------------------------------------------------------
(* The blockchain (edr_evm LocalBlockchain): a sequence of blocks, each     *)
(* with its timestamp, its transactions, its state diff and the gas limit   *)
(* of its header.                                                           *)

Block(timestamp, transactions, state_diff, reserved, gas_limit) ==
    [timestamp |-> timestamp, transactions |-> transactions,
     state_diff |-> state_diff, reserved |-> reserved, gas_limit |-> gas_limit]

GenesisBlock(block_gas_limit) == Block(0, <<>>, GenesisState, FALSE, block_gas_limit)

LastBlockNumberOf(chain) == Len(chain) - 1
LastBlockOf(chain) == chain[Len(chain)]

\* Blockchain::insert_block
InsertBlock(chain, block) == Append(chain, block)

\* Blockchain::reserve_blocks: `count` empty blocks, `interval` seconds apart
ReserveBlocks(chain, count, interval) ==
    chain \o [k \in 1..count |->
                 Block(LastBlockOf(chain).timestamp + k * interval, <<>>, EmptyMap, TRUE,
                       LastBlockOf(chain).gas_limit)]

\* Blockchain::revert_to_block
RevertToBlock(chain, block_number) == SubSeq(chain, 1, block_number + 1)

\* Blockchain::state_at_block_number: the diffs of the blocks up to block_number,
\* each followed by the irregular override recorded at its number
RECURSIVE StateAtBlockNumber(_, _, _)
StateAtBlockNumber(chain, block_number, overrides) ==
    LET before == IF block_number = 0 THEN GenesisState
                  ELSE StateAtBlockNumber(chain, block_number - 1, overrides)
        mined == ApplyDiff(before, chain[block_number + 1].state_diff)
    IN  IF block_number \in DOMAIN overrides
        THEN ApplyDiff(mined, overrides[block_number].diff)
        ELSE mined

\* the hash of a block of the chain
BlockHash(chain, block_number) ==
    <<block_number, chain[block_number + 1].timestamp, chain[block_number + 1].transactions>>

----------------------------------------------------------------------------
(* LruCache (lru crate), least recently used first *)

MAX_CACHED_STATES == 64

LruContains(cache, id) == \E i \in 1..Len(cache) : cache[i].id = id
LruIndex(cache, id) == CHOOSE i \in 1..Len(cache) : cache[i].id = id
LruPeek(cache, id) == cache[LruIndex(cache, id)].state

LruWithout(cache, id) == SelectSeq(cache, LAMBDA e : e.id # id)

\* LruCache::get: the entry becomes the most recently used
LruTouch(cache, id) ==
    Append(LruWithout(cache, id), [id |-> id, state |-> LruPeek(cache, id)])

\* LruCache::push: replaces the entry of the key, or evicts the least recently used
LruPush(cache, id, state) ==
    IF LruContains(cache, id) THEN Append(LruWithout(cache, id), [id |-> id, state |-> state])
    ELSE IF Len(cache) >= MAX_CACHED_STATES
         THEN Append(Tail(cache), [id |-> id, state |-> state])
         ELSE Append(cache, [id |-> id, state |-> state])

----------------------------------------------------------------------------
(* The engine record: the fields of ProviderData, with the three id         *)
(* histories threaded through the operations that mint ids.                 *)

LastBlockNumber(d) == LastBlockNumberOf(d.blockchain)
LastBlock(d) == LastBlockOf(d.blockchain)

\* ProviderData::spec_id: the hardfork of the configuration (a local blockchain)
SpecId(d) == d.initial_config.hardfork

\* self.spec_id() >= hardfork
SpecIdAtLeast(d, hardfork) == HardforkRank(SpecId(d)) >= HardforkRank(hardfork)

\* an add_state_to_cache that keeps the id a block number is already indexed with
AddStateToCacheSameId(d, state, block_number) ==
    LET state_id == IF block_number \in DOMAIN d.block_number_to_state_id
                    THEN d.block_number_to_state_id[block_number]
                    ELSE d.current_state_id + 1
    IN  [d EXCEPT !.current_state_id = Max(@, state_id),
                  !.block_state_cache = LruPush(@, state_id, state),
                  !.block_number_to_state_id = MapInsert(@, block_number, state_id),
                  !.minted_state_ids = Append(@, state_id)]

\* ProviderData::add_state_to_cache
AddStateToCache(d, state, block_number) ==
    LET state_id == d.current_state_id + 1
    IN  [d EXCEPT !.current_state_id = state_id,
                  !.block_state_cache = LruPush(@, state_id, state),
                  !.block_number_to_state_id = MapInsert(@, block_number, state_id),
                  !.minted_state_ids = Append(@, state_id)]

\* a get_or_compute_state that trusts the index: the state of an indexed block
\* number whose id was evicted is recomputed but not added to the cache
GetOrComputeStateTrustingIndex(d, block_number) ==
    IF /\ block_number \in DOMAIN d.block_number_to_state_id
       /\ LruContains(d.block_state_cache, d.block_number_to_state_id[block_number])
    THEN LET state_id == d.block_number_to_state_id[block_number]
         IN  [d |-> [d EXCEPT !.block_state_cache = LruTouch(@, state_id)],
              state |-> LruPeek(d.block_state_cache, state_id)]
    ELSE LET state == StateAtBlockNumber(d.blockchain, block_number, d.irregular_state)
         IN  IF block_number \in DOMAIN d.block_number_to_state_id
             THEN [d |-> d, state |-> state]
             ELSE [d |-> AddStateToCache(d, state, block_number), state |-> state]

\* ProviderData::get_or_compute_state: the cached state, or the state recomputed
\* from the blockchain with the irregular overrides and added to the cache
GetOrComputeState(d, block_number) ==
    IF /\ block_number \in DOMAIN d.block_number_to_state_id
       /\ LruContains(d.block_state_cache, d.block_number_to_state_id[block_number])
    THEN LET state_id == d.block_number_to_state_id[block_number]
         IN  [d |-> [d EXCEPT !.block_state_cache = LruTouch(@, state_id)],
              state |-> LruPeek(d.block_state_cache, state_id)]
    ELSE LET state == StateAtBlockNumber(d.blockchain, block_number, d.irregular_state)
         IN  [d |-> AddStateToCache(d, state, block_number), state |-> state]

\* ProviderData::current_state
CurrentState(d) == GetOrComputeState(d, LastBlockNumber(d))

\* ProviderData::account_next_nonce
NextNonceOn(cs, address) ==
    [d |-> cs.d, nonce |-> MemPoolAccountNextNonce(cs.d.mem_pool, cs.state, address)]

AccountNextNonce(d, address) == NextNonceOn(CurrentState(d), address)

----------------------------------------------------------------------------
(* Timestamps *)

\* ProviderData::next_block_timestamp: the timestamp of the next block and the
\* block time offset to store once the block is mined
NextBlockTimestamp(d, timestamp, t_now) ==
    LET latest == LastBlock(d).timestamp
        chosen ==
            IF IsSome(timestamp)
            THEN [block_timestamp |-> Unwrap(timestamp),
                  new_offset |-> Some(Unwrap(timestamp) - t_now)]
            ELSE IF IsSome(d.next_block_timestamp)
            THEN [block_timestamp |-> Unwrap(d.next_block_timestamp),
                  new_offset |-> Some(Unwrap(d.next_block_timestamp) - t_now)]
            ELSE [block_timestamp |-> t_now + d.block_time_offset_seconds,
                  new_offset |-> None]
        timestamp_needs_increase ==
            /\ chosen.block_timestamp = latest
            /\ ~d.allow_blocks_with_same_timestamp
    IN  IF IsSome(timestamp) /\ Unwrap(timestamp) < latest
        THEN [ok |-> FALSE, error |-> "TimestampLowerThanPrevious"]
        ELSE IF timestamp_needs_increase
        THEN [ok |-> TRUE, error |-> "none",
              block_timestamp |-> chosen.block_timestamp + 1,
              new_offset |-> IF IsNone(chosen.new_offset)
                             THEN Some(d.block_time_offset_seconds + 1)
                             ELSE chosen.new_offset]
        ELSE [ok |-> TRUE, error |-> "none",
              block_timestamp |-> chosen.block_timestamp,
              new_offset |-> chosen.new_offset]

----------------------------------------------------------------------------
(* Mining *)

\* the first pending transaction, in insertion order, that can run next: its nonce
\* is its sender's, it is funded and it fits in the gas left in the block
NextExecutable(txs, state, gas_left) ==
    LET ok(i) == /\ txs[i].nonce = state[txs[i].caller].nonce
                 /\ txs[i].value <= state[txs[i].caller].balance
                 /\ txs[i].gas_limit <= gas_left
    IN  IF \E i \in 1..Len(txs) : ok(i)
        THEN CHOOSE i \in 1..Len(txs) : ok(i) /\ \A j \in 1..(i - 1) : ~ok(j)
        ELSE 0

\* executing a transaction: the sender pays the value and its nonce is bumped
ExecuteTransaction(state, t) ==
    [state EXCEPT ![t.caller] = [@ EXCEPT !.nonce = @ + 1, !.balance = @ - t.value]]

\* edr_evm::mine_block: as many transactions of the mempool as fit, in order
RECURSIVE MineTransactions(_, _, _, _, _)
MineTransactions(txs, state, gas_left, mined, touched) ==
    LET i == NextExecutable(txs, state, gas_left)
    IN  IF i = 0
        THEN [transactions |-> mined, state |-> state,
              state_diff |-> [a \in touched |-> state[a]]]
        ELSE MineTransactions(txs, ExecuteTransaction(state, txs[i]),
                              gas_left - txs[i].gas_limit,
                              Append(mined, txs[i].hash), touched \cup {txs[i].caller})

\* the block and the state that mining the mempool on the state `cs` gives
MinedOn(cs, timestamp, result) ==
    [d |-> cs.d,
     block |-> Block(timestamp, result.transactions, result.state_diff, FALSE,
                     cs.d.mem_pool.block_gas_limit),
     state |-> result.state]

\* ProviderData::mine_block: mines on a clone of the current state
MineBlockFrom(cs, pool, timestamp) ==
    MinedOn(cs, timestamp,
            MineTransactions(pool.transactions, cs.state, pool.block_gas_limit,
                             <<>>, {}))

MineBlock(d, timestamp) == MineBlockFrom(CurrentState(d), d.mem_pool, timestamp)

\* Filter::has_expired
HasExpired(filter, t_now) == ~filter.is_subscription /\ t_now > filter.deadline

\* the invocations of subscriber_callback by a loop over the filters: one for
\* each subscription of the kind, in the iteration order of the HashMap
Callbacks(fs, order, kind, data) ==
    LET receiving(id) == /\ id \in DOMAIN fs
                         /\ fs[id].kind = kind
                         /\ fs[id].is_subscription
        ids == SelectSeq(order, receiving)
    IN  [i \in 1..Len(ids) |-> [filter_id |-> ids[i], kind |-> kind, data |-> data]]

\* a filter loop of mine_and_commit_block that appends the new block to the
\* accumulator of the subscriptions too
NotifyAllBlockFilters(fs, block_hash) ==
    [id \in DOMAIN fs |->
        IF fs[id].kind = "NewHeads"
        THEN [fs[id] EXCEPT !.events = Append(@, block_hash)]
        ELSE fs[id]]

\* the filter loop of mine_and_commit_block: each block filter gets the new block
NotifyBlockFilters(fs, block_hash) ==
    [id \in DOMAIN fs |->
        IF fs[id].kind = "NewHeads" /\ ~fs[id].is_subscription
        THEN [fs[id] EXCEPT !.events = Append(@, block_hash)]
        ELSE fs[id]]

RetainFilters(fs, t_now) ==
    [id \in {i \in DOMAIN fs : ~HasExpired(fs[i], t_now)} |-> fs[id]]

\* the steps of mine_and_commit_block that can return an error
MineFailures == {"none", "mine_block", "insert_block", "mem_pool_update"}

\* mine_and_commit_block from the insertion of the block on: `d2` is the engine
\* with the offset stored and the next-block overrides cleared
CommitMinedBlock(d2, block, state, t_now, fail) ==
    IF fail = "insert_block" THEN [ok |-> FALSE, error |-> fail, d |-> d2]
    ELSE IF fail = "mem_pool_update"
    THEN [ok |-> FALSE, error |-> fail,
          d |-> [d2 EXCEPT !.blockchain = InsertBlock(@, block)]]
    ELSE [ok |-> TRUE, error |-> "none", block |-> block,
          d |-> AddStateToCache(
                    [d2 EXCEPT
                        !.blockchain = InsertBlock(@, block),
                        !.mem_pool = MemPoolUpdate(@, state),
                        !.callbacks =
                            @ \o Callbacks(d2.filters, d2.filter_order, "NewHeads",
                                           BlockHash(InsertBlock(d2.blockchain, block),
                                                     Len(d2.blockchain))),
                        !.filters =
                            RetainFilters(
                                NotifyBlockFilters(
                                    @, BlockHash(InsertBlock(d2.blockchain, block),
                                                 Len(d2.blockchain))),
                                t_now)],
                    state, Len(d2.blockchain))]

\* a mine_and_commit_block that leaves next_block_timestamp set
StoreMinedBlockKeepingTimestamp(result, ts, t_now, fail) ==
    IF fail = "mine_block" THEN [ok |-> FALSE, error |-> fail, d |-> result.d]
    ELSE CommitMinedBlock(
             [result.d EXCEPT
                 !.block_time_offset_seconds =
                     IF IsSome(ts.new_offset) THEN Unwrap(ts.new_offset) ELSE @,
                 !.next_block_base_fee_per_gas = None],
             result.block, result.state, t_now, fail)

\* mine_and_commit_block once the block is mined: the offset is stored and the
\* next-block overrides are cleared before the block is inserted
StoreMinedBlock(result, ts, t_now, fail) ==
    IF fail = "mine_block" THEN [ok |-> FALSE, error |-> fail, d |-> result.d]
    ELSE CommitMinedBlock(
             [result.d EXCEPT
                 !.block_time_offset_seconds =
                     IF IsSome(ts.new_offset) THEN Unwrap(ts.new_offset) ELSE @,
                 !.next_block_base_fee_per_gas = None,
                 !.next_block_timestamp = None],
             result.block, result.state, t_now, fail)

\* mine_and_commit_block once the timestamp is chosen: the prev-randao generator
\* advances, then the block is mined
MineAtTimestamp(d, ts, t_now, fail) ==
    IF ~ts.ok THEN [ok |-> FALSE, error |-> ts.error, d |-> d]
    ELSE StoreMinedBlock(
             MineBlock([d EXCEPT !.prev_randao_generator =
                                     IF SpecIdAtLeast(d, "Merge")
                                     THEN RandaoNextValue(@).generator ELSE @],
                       ts.block_timestamp),
             ts, t_now, fail)

\* ProviderData::mine_and_commit_block.  `fail` names the step that returns an
\* error, if any; the fields assigned before that step keep their new values.
MineAndCommitBlock(d, timestamp, t_now, fail) ==
    MineAtTimestamp(d, NextBlockTimestamp(d, timestamp, t_now), t_now, fail)

----------------------------------------------------------------------------
(* Bulk mining *)

MINIMUM_RESERVABLE_BLOCKS == 6

\* mined_blocks.push(data.mine_and_commit_block(..)?): `acc` carries the engine
\* and the blocks mined so far; an error ends the operation with the engine as
\* the failed call left it
Pushed(acc, r) ==
    IF r.ok
    THEN [ok |-> TRUE, error |-> "none", d |-> r.d, mined |-> Append(acc.mined, r.block)]
    ELSE [ok |-> FALSE, error |-> r.error, d |-> r.d, mined |-> acc.mined]

\* the error injected into the next call of mine_and_commit_block, if it is the
\* call numbered `fail_at`
FailureOfCall(acc, fail_at, fail) == IF fail_at = Len(acc.mined) + 1 THEN fail ELSE "none"

\* a closure that asks for one second more than previous + interval
MineBlockWithIntervalLate(acc, interval, t_now, fail_at, fail) ==
    IF ~acc.ok THEN acc
    ELSE Pushed(acc, MineAndCommitBlock(
                         acc.d, Some(acc.mined[Len(acc.mined)].timestamp + interval + 1),
                         t_now, FailureOfCall(acc, fail_at, fail)))

\* the closure mine_block_with_interval of mine_and_commit_blocks
MineBlockWithInterval(acc, interval, t_now, fail_at, fail) ==
    IF ~acc.ok THEN acc
    ELSE Pushed(acc, MineAndCommitBlock(
                         acc.d, Some(acc.mined[Len(acc.mined)].timestamp + interval),
                         t_now, FailureOfCall(acc, fail_at, fail)))

\* the while loop: mine while blocks are left and the mempool has pending transactions
RECURSIVE MineWhilePending(_, _, _, _, _, _)
MineWhilePending(acc, number_of_blocks, interval, t_now, fail_at, fail) ==
    IF acc.ok /\ Len(acc.mined) < number_of_blocks /\ HasPendingTransactions(acc.d.mem_pool)
    THEN MineWhilePending(MineBlockWithInterval(acc, interval, t_now, fail_at, fail),
                          number_of_blocks, interval, t_now, fail_at, fail)
    ELSE acc

\* a for loop that stops one block short
RECURSIVE MineRemainingButOne(_, _, _, _, _, _)
MineRemainingButOne(acc, remaining_blocks, interval, t_now, fail_at, fail) ==
    IF acc.ok /\ remaining_blocks > 1
    THEN MineRemainingButOne(MineBlockWithInterval(acc, interval, t_now, fail_at, fail),
                             remaining_blocks - 1, interval, t_now, fail_at, fail)
    ELSE acc

\* the for loop over the remaining blocks
RECURSIVE MineRemaining(_, _, _, _, _, _)
MineRemaining(acc, remaining_blocks, interval, t_now, fail_at, fail) ==
    IF acc.ok /\ remaining_blocks > 0
    THEN MineRemaining(MineBlockWithInterval(acc, interval, t_now, fail_at, fail),
                       remaining_blocks - 1, interval, t_now, fail_at, fail)
    ELSE acc

\* blockchain.reserve_blocks(count, interval) on the engine
Reserved(d, count, interval) ==
    [d EXCEPT !.blockchain = ReserveBlocks(@, count, interval)]

\* the cache entry for the last reserved block: the state before the reservation
CachedForLastBlock(d, state) == AddStateToCache(d, state, LastBlockNumber(d))

\* the block mined after the reservation, one interval after the last reserved one
MineAfterReservation(acc, d, interval, t_now, fail_at, fail) ==
    Pushed(acc, MineAndCommitBlock(d, Some(LastBlock(d).timestamp + interval), t_now,
                                   FailureOfCall(acc, fail_at, fail)))

\* the reservation branch on the current state `cs`
ReserveOn(acc, cs, remaining_blocks, interval, t_now, fail_at, fail) ==
    MineAfterReservation(
        acc, CachedForLastBlock(Reserved(cs.d, remaining_blocks - 1, interval), cs.state),
        interval, t_now, fail_at, fail)

\* the reservation branch: reserve remaining - 1 blocks, cache the current state
\* for the last reserved block, and mine one more block after the reservation
ReserveAndMine(acc, remaining_blocks, interval, t_now, fail_at, fail) ==
    ReserveOn(acc, CurrentState(acc.d), remaining_blocks, interval, t_now, fail_at, fail)

\* the first block, mined with no timestamp requested
MineFirstBlock(d, t_now, fail_at, fail) ==
    Pushed([d |-> d, mined |-> <<>>],
           MineAndCommitBlock(d, None, t_now, IF fail_at = 1 THEN fail ELSE "none"))

\* the block mined after the while loop if at least one block is left
MineOneIfLeft(acc, number_of_blocks, interval, t_now, fail_at, fail) ==
    IF acc.ok /\ Len(acc.mined) < number_of_blocks
    THEN MineBlockWithInterval(acc, interval, t_now, fail_at, fail)
    ELSE acc

\* a choice that reserves from 5 remaining blocks on
MineOrReserveFromFive(acc, remaining_blocks, interval, t_now, fail_at, fail) ==
    IF ~acc.ok THEN acc
    ELSE IF remaining_blocks < MINIMUM_RESERVABLE_BLOCKS - 1
    THEN MineRemaining(acc, remaining_blocks, interval, t_now, fail_at, fail)
    ELSE ReserveAndMine(acc, remaining_blocks, interval, t_now, fail_at, fail)

\* the remaining blocks: mined one by one if they are few, reserved otherwise
MineOrReserve(acc, remaining_blocks, interval, t_now, fail_at, fail) ==
    IF ~acc.ok THEN acc
    ELSE IF remaining_blocks < MINIMUM_RESERVABLE_BLOCKS
    THEN MineRemaining(acc, remaining_blocks, interval, t_now, fail_at, fail)
    ELSE ReserveAndMine(acc, remaining_blocks, interval, t_now, fail_at, fail)

\* mine_and_commit_blocks after its first block and its while loop
FinishBlocks(acc, number_of_blocks, interval, t_now, fail_at, fail) ==
    MineOrReserve(acc, number_of_blocks - Len(acc.mined), interval, t_now, fail_at, fail)

\* ProviderData::mine_and_commit_blocks
MineAndCommitBlocks(d, number_of_blocks, interval, t_now, fail_at, fail) ==
    IF number_of_blocks = 0 THEN [ok |-> TRUE, error |-> "none", d |-> d, mined |-> <<>>]
    ELSE FinishBlocks(
             MineOneIfLeft(
                 MineWhilePending(MineFirstBlock(d, t_now, fail_at, fail),
                                  number_of_blocks, interval, t_now, fail_at, fail),
                 number_of_blocks, interval, t_now, fail_at, fail),
             number_of_blocks, interval, t_now, fail_at, fail)

----------------------------------------------------------------------------
(* Snapshots *)

\* what a revert is to bring back: the engine as a caller can observe it
Observed(d) ==
    [block_number |-> LastBlockNumber(d),
     coinbase |-> d.beneficiary,
     mem_pool |-> d.mem_pool,
     irregular_state |-> d.irregular_state,
     next_block_base_fee_per_gas |-> d.next_block_base_fee_per_gas,
     next_block_timestamp |-> d.next_block_timestamp,
     prev_randao_generator |-> d.prev_randao_generator,
     block_number_to_state_id |-> d.block_number_to_state_id]

\* a make_snapshot that hands out the lowest id no stored snapshot has
MakeSnapshotLowestFree(d, t_now) ==
    LET id == CHOOSE i \in 1..d.next_snapshot_id :
                  /\ i \notin DOMAIN d.snapshots
                  /\ \A j \in 1..(i - 1) : j \in DOMAIN d.snapshots
        snapshot ==
            [block_number |-> LastBlockNumber(d),
             block_number_to_state_id |-> d.block_number_to_state_id,
             block_time_offset_seconds |-> d.block_time_offset_seconds,
             coinbase |-> d.beneficiary,
             irregular_state |-> d.irregular_state,
             mem_pool |-> d.mem_pool,
             next_block_base_fee_per_gas |-> d.next_block_base_fee_per_gas,
             next_block_timestamp |-> d.next_block_timestamp,
             prev_randao_generator |-> d.prev_randao_generator,
             time |-> t_now]
    IN  [id |-> id,
         d |-> [d EXCEPT !.next_snapshot_id = id + 1,
                         !.snapshots = MapInsert(@, id, snapshot),
                         !.returned_snapshot_ids = Append(@, id),
                         !.taken = MapInsert(@, id, Observed(d))]]

\* ProviderData::make_snapshot
MakeSnapshot(d, t_now) ==
    LET id == d.next_snapshot_id
        snapshot ==
            [block_number |-> LastBlockNumber(d),
             block_number_to_state_id |-> d.block_number_to_state_id,
             block_time_offset_seconds |-> d.block_time_offset_seconds,
             coinbase |-> d.beneficiary,
             irregular_state |-> d.irregular_state,
             mem_pool |-> d.mem_pool,
             next_block_base_fee_per_gas |-> d.next_block_base_fee_per_gas,
             next_block_timestamp |-> d.next_block_timestamp,
             prev_randao_generator |-> d.prev_randao_generator,
             time |-> t_now]
    IN  [id |-> id,
         d |-> [d EXCEPT !.next_snapshot_id = id + 1,
                         !.snapshots = MapInsert(@, id, snapshot),
                         !.returned_snapshot_ids = Append(@, id),
                         !.taken = MapInsert(@, id, Observed(d))]]

\* a split that leaves the entry of the key itself in the map
SplitOffAbove(m, key) == [k \in {x \in DOMAIN m : x <= key} |-> m[k]]

\* BTreeMap::split_off: the entries below the key stay
SplitOffBelow(m, key) == [k \in {x \in DOMAIN m : x < key} |-> m[k]]

\* the block time offset revert_to_snapshot computes from the snapshot
RevertedOffset(snapshot, t_now) ==
    snapshot.block_time_offset_seconds + (t_now - snapshot.time)

\* a revert that leaves the mempool as it is
RevertToSnapshotKeepingMemPool(d, snapshot_id, t_now) ==
    LET kept == SplitOffBelow(d.snapshots, snapshot_id)
        snapshot == d.snapshots[snapshot_id]
    IN  IF snapshot_id \in DOMAIN d.snapshots
        THEN [result |-> TRUE,
              d |-> [d EXCEPT
                        !.snapshots = kept,
                        !.block_number_to_state_id = snapshot.block_number_to_state_id,
                        !.block_time_offset_seconds = RevertedOffset(snapshot, t_now),
                        !.beneficiary = snapshot.coinbase,
                        !.blockchain = RevertToBlock(@, snapshot.block_number),
                        !.irregular_state = snapshot.irregular_state,
                        !.next_block_base_fee_per_gas = snapshot.next_block_base_fee_per_gas,
                        !.next_block_timestamp = snapshot.next_block_timestamp,
                        !.prev_randao_generator = snapshot.prev_randao_generator]]
        ELSE [result |-> FALSE, d |-> [d EXCEPT !.snapshots = kept]]

\* a revert that removes the snapshot it reverts to and keeps the later ones
RevertToSnapshotKeepingLater(d, snapshot_id, t_now) ==
    LET kept == MapRemove(d.snapshots, snapshot_id)
        snapshot == d.snapshots[snapshot_id]
    IN  IF snapshot_id \in DOMAIN d.snapshots
        THEN [result |-> TRUE,
              d |-> [d EXCEPT
                        !.snapshots = kept,
                        !.block_number_to_state_id = snapshot.block_number_to_state_id,
                        !.block_time_offset_seconds = RevertedOffset(snapshot, t_now),
                        !.beneficiary = snapshot.coinbase,
                        !.blockchain = RevertToBlock(@, snapshot.block_number),
                        !.irregular_state = snapshot.irregular_state,
                        !.mem_pool = snapshot.mem_pool,
                        !.next_block_base_fee_per_gas = snapshot.next_block_base_fee_per_gas,
                        !.next_block_timestamp = snapshot.next_block_timestamp,
                        !.prev_randao_generator = snapshot.prev_randao_generator]]
        ELSE [result |-> FALSE, d |-> [d EXCEPT !.snapshots = SplitOffBelow(@, snapshot_id)]]

\* a revert that leaves the block-number-to-state-id index as it is
RevertToSnapshotKeepingIndex(d, snapshot_id, t_now) ==
    LET kept == SplitOffBelow(d.snapshots, snapshot_id)
        snapshot == d.snapshots[snapshot_id]
    IN  IF snapshot_id \in DOMAIN d.snapshots
        THEN [result |-> TRUE,
              d |-> [d EXCEPT
                        !.snapshots = kept,
                        !.block_time_offset_seconds = RevertedOffset(snapshot, t_now),
                        !.beneficiary = snapshot.coinbase,
                        !.blockchain = RevertToBlock(@, snapshot.block_number),
                        !.irregular_state = snapshot.irregular_state,
                        !.mem_pool = snapshot.mem_pool,
                        !.next_block_base_fee_per_gas = snapshot.next_block_base_fee_per_gas,
                        !.next_block_timestamp = snapshot.next_block_timestamp,
                        !.prev_randao_generator = snapshot.prev_randao_generator]]
        ELSE [result |-> FALSE, d |-> [d EXCEPT !.snapshots = kept]]

\* a revert that also takes current_state_id back to the id of the snapshot's block
RevertToSnapshotResettingStateId(d, snapshot_id, t_now) ==
    LET kept == SplitOffBelow(d.snapshots, snapshot_id)
        snapshot == d.snapshots[snapshot_id]
    IN  IF snapshot_id \in DOMAIN d.snapshots
        THEN [result |-> TRUE,
              d |-> [d EXCEPT
                        !.snapshots = kept,
                        !.block_number_to_state_id = snapshot.block_number_to_state_id,
                        !.current_state_id =
                            snapshot.block_number_to_state_id[snapshot.block_number],
                        !.block_time_offset_seconds = RevertedOffset(snapshot, t_now),
                        !.beneficiary = snapshot.coinbase,
                        !.blockchain = RevertToBlock(@, snapshot.block_number),
                        !.irregular_state = snapshot.irregular_state,
                        !.mem_pool = snapshot.mem_pool,
                        !.next_block_base_fee_per_gas = snapshot.next_block_base_fee_per_gas,
                        !.next_block_timestamp = snapshot.next_block_timestamp,
                        !.prev_randao_generator = snapshot.prev_randao_generator]]
        ELSE [result |-> FALSE, d |-> [d EXCEPT !.snapshots = kept]]

\* ProviderData::revert_to_snapshot
RevertToSnapshot(d, snapshot_id, t_now) ==
    LET kept == SplitOffBelow(d.snapshots, snapshot_id)
        snapshot == d.snapshots[snapshot_id]
    IN  IF snapshot_id \in DOMAIN d.snapshots
        THEN [result |-> TRUE,
              d |-> [d EXCEPT
                        !.snapshots = kept,
                        !.block_number_to_state_id = snapshot.block_number_to_state_id,
                        !.block_time_offset_seconds = RevertedOffset(snapshot, t_now),
                        !.beneficiary = snapshot.coinbase,
                        !.blockchain = RevertToBlock(@, snapshot.block_number),
                        !.irregular_state = snapshot.irregular_state,
                        !.mem_pool = snapshot.mem_pool,
                        !.next_block_base_fee_per_gas = snapshot.next_block_base_fee_per_gas,
                        !.next_block_timestamp = snapshot.next_block_timestamp,
                        !.prev_randao_generator = snapshot.prev_randao_generator]]
        ELSE [result |-> FALSE, d |-> [d EXCEPT !.snapshots = kept]]

----------------------------------------------------------------------------
(* Transactions *)

\* the filter loop of add_pending_transaction
NotifyPendingFilters(fs, transaction_hash) ==
    [id \in DOMAIN fs |->
        IF fs[id].kind = "NewPendingTransactions" /\ ~fs[id].is_subscription
        THEN [fs[id] EXCEPT !.events = Append(@, transaction_hash)]
        ELSE fs[id]]

\* an add_pending_transaction that runs its filter loop before the mempool's verdict
AddToMemPoolNotifyingFirst(cs, error, transaction) ==
    IF error # "none"
    THEN [ok |-> FALSE, error |-> error,
          d |-> [cs.d EXCEPT !.filters = NotifyPendingFilters(@, transaction.hash)]]
    ELSE [ok |-> TRUE, error |-> "none",
          d |-> [cs.d EXCEPT
                    !.mem_pool = MemPoolAddTransaction(@, cs.state, transaction),
                    !.callbacks =
                        @ \o Callbacks(cs.d.filters, cs.d.filter_order,
                                       "NewPendingTransactions", transaction.hash),
                    !.filters = NotifyPendingFilters(@, transaction.hash)]]

\* add_pending_transaction on the current state `cs`: the mempool's verdict,
\* then the pending-transaction filters
AddToMemPool(cs, error, transaction) ==
    IF error # "none" THEN [ok |-> FALSE, error |-> error, d |-> cs.d]
    ELSE [ok |-> TRUE, error |-> "none",
          d |-> [cs.d EXCEPT
                    !.mem_pool = MemPoolAddTransaction(@, cs.state, transaction),
                    !.callbacks =
                        @ \o Callbacks(cs.d.filters, cs.d.filter_order,
                                       "NewPendingTransactions", transaction.hash),
                    !.filters = NotifyPendingFilters(@, transaction.hash)]]

AddPendingTransactionOn(cs, transaction) ==
    AddToMemPool(cs, MemPoolAddError(cs.d.mem_pool, cs.state, transaction), transaction)

\* ProviderData::add_pending_transaction
AddPendingTransaction(d, transaction) ==
    AddPendingTransactionOn(CurrentState(d), transaction)

\* the nonce errors of validate_auto_mine_transaction
AutoMineNonceErrors == {"AutoMineNonceTooLow", "AutoMineNonceTooHigh"}

\* the nonce check of validate_auto_mine_transaction
CheckAutoMineNonce(next, transaction) ==
    [d |-> next.d,
     expected |-> next.nonce,
     actual |-> transaction.nonce,
     error |-> IF transaction.nonce < next.nonce THEN "AutoMineNonceTooLow"
               ELSE IF transaction.nonce > next.nonce THEN "AutoMineNonceTooHigh"
               ELSE "none"]

\* a validate_auto_mine_transaction that compares with the sender's nonce in the
\* current state, without the sender's pending transactions
ValidateAgainstStateNonce(d, transaction) ==
    CheckAutoMineNonce([d |-> CurrentState(d).d,
                        nonce |-> CurrentState(d).state[transaction.caller].nonce],
                       transaction)

\* ProviderData::validate_auto_mine_transaction (every transaction of the model
\* pays at least the minimum gas price and the next base fee)
ValidateAutoMineTransaction(d, transaction) ==
    CheckAutoMineNonce(AccountNextNonce(d, transaction.caller), transaction)

\* one iteration of the loops of send_transaction: the result `r` of
\* mine_and_commit_block(None) is pushed, and the transaction is looked for in the block
AutoMined(acc, transaction_hash, r) ==
    IF ~r.ok
    THEN [ok |-> FALSE, error |-> r.error, d |-> r.d, mined |-> acc.mined,
          found |-> acc.found]
    ELSE [ok |-> TRUE, error |-> "none", d |-> r.d, mined |-> acc.mined + 1,
          found |-> acc.found \/ \E i \in 1..Len(r.block.transactions) :
                                    r.block.transactions[i] = transaction_hash]

\* the two loops of send_transaction: mine until the transaction is in a block, then
\* until the mempool has no pending transaction.  `acc` carries the engine and the
\* number of blocks mined; `fuel` bounds the blocks the model follows.
RECURSIVE AutoMineLoop(_, _, _, _, _, _)
AutoMineLoop(acc, transaction_hash, t_now, fail_at, fail, fuel) ==
    IF ~acc.ok THEN acc
    ELSE IF acc.found /\ ~HasPendingTransactions(acc.d.mem_pool) THEN acc
    ELSE IF fuel = 0 THEN [acc EXCEPT !.ok = FALSE, !.error = "unbounded"]
    ELSE AutoMineLoop(
             AutoMined(acc, transaction_hash,
                       MineAndCommitBlock(acc.d, None, t_now,
                                          IF fail_at = acc.mined + 1 THEN fail ELSE "none")),
             transaction_hash, t_now, fail_at, fail, fuel - 1)

\* an end of an auto-mined send_transaction that removes the snapshot after an
\* error instead of reverting to it
AutoMineDoneWithoutRevert(loop, snapshot_id, t_now) ==
    IF loop.error = "unbounded"
    THEN [ok |-> FALSE, error |-> loop.error, d |-> loop.d, mined |-> loop.mined]
    ELSE [ok |-> loop.ok, error |-> loop.error,
          d |-> [loop.d EXCEPT !.snapshots = MapRemove(@, snapshot_id)],
          mined |-> loop.mined, transaction_result |-> Some(loop.found)]

\* the end of an auto-mined send_transaction: the snapshot is reverted to after
\* an error, and removed after a success
AutoMineDone(loop, snapshot_id, t_now) ==
    IF loop.error = "unbounded"
    THEN [ok |-> FALSE, error |-> loop.error, d |-> loop.d, mined |-> loop.mined]
    ELSE IF ~loop.ok
    THEN [ok |-> FALSE, error |-> loop.error,
          d |-> RevertToSnapshot(loop.d, snapshot_id, t_now).d, mined |-> loop.mined]
    ELSE [ok |-> TRUE, error |-> "none",
          d |-> [loop.d EXCEPT !.snapshots = MapRemove(@, snapshot_id)],
          mined |-> loop.mined, transaction_result |-> Some(loop.found)]

\* send_transaction with auto-mining, after add_pending_transaction returned `added`
AutoMineAdded(added, snapshot_id, transaction_hash, t_now, fail_at, fail, fuel) ==
    IF ~added.ok
    THEN [ok |-> FALSE, error |-> added.error,
          d |-> RevertToSnapshot(added.d, snapshot_id, t_now).d, mined |-> 0]
    ELSE AutoMineDone(
             AutoMineLoop([ok |-> TRUE, error |-> "none", d |-> added.d, mined |-> 0,
                           found |-> FALSE],
                          transaction_hash, t_now, fail_at, fail, fuel),
             snapshot_id, t_now)

\* send_transaction with auto-mining, inside the snapshot `snap` it made
SendInSnapshot(snap, transaction, t_now, fail_at, fail, fuel) ==
    AutoMineAdded(AddPendingTransaction(snap.d, transaction), snap.id, transaction.hash,
                  t_now, fail_at, fail, fuel)

\* send_transaction with auto-mining, after validate_auto_mine_transaction
SendAutoMined(valid, transaction, t_now, fail_at, fail, fuel) ==
    IF valid.error # "none"
    THEN [ok |-> FALSE, error |-> valid.error, expected |-> valid.expected,
          actual |-> valid.actual, d |-> valid.d, mined |-> 0]
    ELSE SendInSnapshot(MakeSnapshot(valid.d, t_now), transaction, t_now, fail_at, fail,
                        fuel)

\* a send_transaction without auto-mining that makes a snapshot it never removes
SendPendingInSnapshot(added) ==
    [ok |-> added.ok, error |-> added.error, d |-> MakeSnapshot(added.d, 0).d,
     mined |-> 0, transaction_result |-> None]

\* send_transaction without auto-mining: the transaction is only added, and
\* transaction_result is None
SendPending(added) ==
    [ok |-> added.ok, error |-> added.error, d |-> added.d, mined |-> 0,
     transaction_result |-> None]

\* ProviderData::send_transaction
SendTransaction(d, transaction, t_now, fail_at, fail, fuel) ==
    IF d.is_auto_mining
    THEN SendAutoMined(ValidateAutoMineTransaction(d, transaction), transaction, t_now,
                       fail_at, fail, fuel)
    ELSE SendPending(AddPendingTransaction(d, transaction))

----------------------------------------------------------------------------
(* State-mutating admin operations *)

\* IrregularState::state_override_at_block_number(..).or_insert_with(..), then the
\* account's new contents recorded in the override's diff
RecordOverride(irregular, block_number, state_root, address, account) ==
    LET override == IF block_number \in DOMAIN irregular THEN irregular[block_number]
                    ELSE [state_root |-> state_root, diff |-> EmptyMap,
                          slots |-> EmptyMap]
    IN  MapInsert(irregular, block_number,
                  [override EXCEPT !.diff = MapInsert(@, address, account)])

\* StorageSlot::new_changed
StorageSlot(old_value, value) ==
    [previous_or_original_value |-> old_value, present_value |-> value]

\* ..or_insert_with(..).diff.apply_storage_change: the account and the changed
\* slot recorded in the override's diff (an account of the model has one slot)
RecordStorageChange(irregular, block_number, state_root, address, slot, account) ==
    [RecordOverride(irregular, block_number, state_root, address, account)
        EXCEPT ![block_number].slots = MapInsert(@, address, slot)]

\* ProviderData::set_balance
SetBalance(d, address, balance, fail) ==
    LET cs == CurrentState(d)
        modified_state == [cs.state EXCEPT ![address].balance = balance]
        block_number == LastBlockNumber(d)
        updated == [cs.d EXCEPT
                       !.mem_pool = MemPoolUpdate(@, modified_state),
                       !.irregular_state =
                           RecordOverride(@, block_number, StateRoot(modified_state),
                                          address, modified_state[address])]
    IN  IF fail = "mem_pool_update" THEN [ok |-> FALSE, error |-> fail, d |-> cs.d]
        ELSE [ok |-> TRUE, error |-> "none",
              d |-> AddStateToCache(updated, modified_state, block_number)]

\* ProviderData::set_nonce
SetNonce(d, address, nonce, fail) ==
    LET cs == CurrentState(d)
        previous_nonce == cs.state[address].nonce
        modified_state == [cs.state EXCEPT ![address].nonce = nonce]
        block_number == LastBlockNumber(d)
        updated == [cs.d EXCEPT
                       !.mem_pool = MemPoolUpdate(@, modified_state),
                       !.irregular_state =
                           RecordOverride(@, block_number, StateRoot(modified_state),
                                          address, modified_state[address])]
    IN  IF HasTransactions(d.mem_pool)
        THEN [ok |-> FALSE, error |-> "SetAccountNonceWithPendingTransactions", d |-> d]
        ELSE IF nonce < previous_nonce
        THEN [ok |-> FALSE, error |-> "SetAccountNonceLowerThanCurrent", d |-> cs.d]
        ELSE IF fail = "mem_pool_update" THEN [ok |-> FALSE, error |-> fail, d |-> cs.d]
        ELSE [ok |-> TRUE, error |-> "none",
              d |-> AddStateToCache(updated, modified_state, block_number)]

\* a set_code that caches the modified state but records no irregular override
SetCodeWithoutOverride(d, address, code) ==
    LET cs == CurrentState(d)
        modified_state == [cs.state EXCEPT ![address].code = code]
    IN  [ok |-> TRUE, error |-> "none",
         d |-> AddStateToCache(cs.d, modified_state, LastBlockNumber(d))]

\* ProviderData::set_code
SetCode(d, address, code) ==
    LET cs == CurrentState(d)
        modified_state == [cs.state EXCEPT ![address].code = code]
        block_number == LastBlockNumber(d)
        updated == [cs.d EXCEPT
                       !.irregular_state =
                           RecordOverride(@, block_number, StateRoot(modified_state),
                                          address, modified_state[address])]
    IN  [ok |-> TRUE, error |-> "none",
         d |-> AddStateToCache(updated, modified_state, block_number)]

\* a set_account_storage_slot that records the override but does not add the
\* modified state to the cache
SetAccountStorageSlotUncached(d, address, value) ==
    LET cs == CurrentState(d)
        modified_state == [cs.state EXCEPT ![address].storage = value]
        block_number == LastBlockNumber(d)
    IN  [ok |-> TRUE, error |-> "none", old_value |-> value,
         d |-> [cs.d EXCEPT
                   !.irregular_state =
                       RecordOverride(@, block_number, StateRoot(modified_state),
                                      address, modified_state[address])]]

\* ProviderData::set_account_storage_slot: the slot is written twice, and the old
\* value recorded for the change is the one the second write returns
SetAccountStorageSlot(d, address, value) ==
    LET cs == CurrentState(d)
        first_write == [cs.state EXCEPT ![address].storage = value]
        old_value == first_write[address].storage
        modified_state == [first_write EXCEPT ![address].storage = value]
        block_number == LastBlockNumber(d)
        updated == [cs.d EXCEPT
                       !.irregular_state =
                           RecordStorageChange(@, block_number, StateRoot(modified_state),
                                               address, StorageSlot(old_value, value),
                                               modified_state[address])]
    IN  [ok |-> TRUE, error |-> "none", old_value |-> old_value,
         d |-> AddStateToCache(updated, modified_state, block_number)]

\* ProviderData::set_block_gas_limit
SetBlockGasLimit(d, gas_limit) ==
    LET cs == CurrentState(d)
    IN  [cs.d EXCEPT !.mem_pool = MemPoolSetBlockGasLimit(@, cs.state, gas_limit)]

\* ProviderData::set_next_block_timestamp
SetNextBlockTimestamp(d, timestamp) ==
    LET latest == LastBlock(d).timestamp
    IN  IF timestamp < latest
        THEN [ok |-> FALSE, error |-> "TimestampLowerThanPrevious", d |-> d]
        ELSE IF timestamp = latest
        THEN [ok |-> FALSE, error |-> "TimestampEqualsPrevious", d |-> d]
        ELSE [ok |-> TRUE, error |-> "none",
              d |-> [d EXCEPT !.next_block_timestamp = Some(timestamp)]]

----------------------------------------------------------------------------
(* Filters *)

FilterKinds == {"NewHeads", "Logs", "NewPendingTransactions"}

\* Filter::new_block_filter, new_log_filter, new_pending_transaction_filter
NewFilter(kind, is_subscription, t_now) ==
    [kind |-> kind, is_subscription |-> is_subscription, events |-> <<>>,
     deadline |-> t_now + FilterTtl]

\* an id one above the highest id of the filters still stored
NextFilterIdAboveStored(d) ==
    IF DOMAIN d.filters = {} THEN 1
    ELSE 1 + CHOOSE id \in DOMAIN d.filters : \A other \in DOMAIN d.filters : other <= id

\* ProviderData::next_filter_id
NextFilterId(d) == d.last_filter_id + 1

\* ProviderData::add_block_filter, add_log_filter, add_pending_transaction_filter
AddFilter(d, kind, is_subscription, t_now) ==
    LET filter_id == NextFilterId(d)
    IN  [id |-> filter_id,
         d |-> [d EXCEPT !.last_filter_id = filter_id,
                         !.filters = MapInsert(@, filter_id,
                                               NewFilter(kind, is_subscription, t_now)),
                         !.returned_filter_ids = Append(@, filter_id)]]

\* ProviderData::remove_filter_impl
RemoveFilterImpl(d, filter_id, is_subscription) ==
    IF filter_id \in DOMAIN d.filters /\ d.filters[filter_id].is_subscription = is_subscription
    THEN [result |-> TRUE, d |-> [d EXCEPT !.filters = MapRemove(@, filter_id)]]
    ELSE [result |-> FALSE, d |-> d]

\* ProviderData::get_filter_changes (Filter::take_events)
GetFilterChanges(d, filter_id, t_now) ==
    IF filter_id \in DOMAIN d.filters
    THEN [events |-> Some(d.filters[filter_id].events),
          d |-> [d EXCEPT !.filters[filter_id] =
                              [@ EXCEPT !.events = <<>>, !.deadline = t_now + FilterTtl]]]
    ELSE [events |-> None, d |-> d]

----------------------------------------------------------------------------
(* The instance *)

\* ProviderData::new
NewProviderData(config) ==
    [initial_config |-> config,
     blockchain |-> <<GenesisBlock(config.block_gas_limit)>>,
     irregular_state |-> EmptyMap,
     mem_pool |-> MemPoolNew(config.block_gas_limit),
     beneficiary |-> config.coinbase,
     prev_randao_generator |-> RandaoNextValue(RandaoNew).generator,
     block_time_offset_seconds |-> 0,
     is_auto_mining |-> config.auto_mine,
     allow_blocks_with_same_timestamp |-> config.allow_blocks_with_same_timestamp,
     next_block_base_fee_per_gas |-> None,
     next_block_timestamp |-> None,
     next_snapshot_id |-> 1,
     snapshots |-> EmptyMap,
     filters |-> EmptyMap,
     last_filter_id |-> 0,
     impersonated_accounts |-> {},
     min_gas_price |-> config.min_gas_price,
     local_accounts |-> Address,
     block_state_cache |-> <<[id |-> 0, state |-> GenesisState]>>,
     current_state_id |-> 0,
     block_number_to_state_id |-> MapInsert(EmptyMap, 0, 0),
     minted_state_ids |-> <<>>,
     returned_snapshot_ids |-> <<>>,
     returned_filter_ids |-> <<>>,
     taken |-> EmptyMap,
     filter_order |-> <<>>,
     callbacks |-> <<>>]

\* a reset that builds the new instance but keeps the filters of the old one
ResetKeepingFilters(d) ==
    [NewProviderData(d.initial_config) EXCEPT !.filters = d.filters,
                                              !.last_filter_id = d.last_filter_id]

\* ProviderData::reset(None): a new instance built from the initial configuration
Reset(d) == NewProviderData(d.initial_config)

\* the engine record of the current state
Self ==
    [initial_config |-> initial_config,
     blockchain |-> blockchain,
     irregular_state |-> irregular_state,
     mem_pool |-> mem_pool,
     beneficiary |-> beneficiary,
     prev_randao_generator |-> prev_randao_generator,
     block_time_offset_seconds |-> block_time_offset_seconds,
     is_auto_mining |-> is_auto_mining,
     allow_blocks_with_same_timestamp |-> allow_blocks_with_same_timestamp,
     next_block_base_fee_per_gas |-> next_block_base_fee_per_gas,
     next_block_timestamp |-> next_block_timestamp,
     next_snapshot_id |-> next_snapshot_id,
     snapshots |-> snapshots,
     filters |-> filters,
     last_filter_id |-> last_filter_id,
     impersonated_accounts |-> impersonated_accounts,
     min_gas_price |-> min_gas_price,
     local_accounts |-> local_accounts,
     block_state_cache |-> block_state_cache,
     current_state_id |-> current_state_id,
     block_number_to_state_id |-> block_number_to_state_id,
     minted_state_ids |-> minted_state_ids,
     returned_snapshot_ids |-> returned_snapshot_ids,
     returned_filter_ids |-> returned_filter_ids,
     taken |-> taken,
     filter_order |-> <<>>,
     callbacks |-> <<>>]

\* the orders in which the filters HashMap may iterate over its keys
IterationOrders(ids) ==
    {order \in [1..Cardinality(ids) -> ids] :
        \A i, j \in 1..Cardinality(ids) : i # j => order[i] # order[j]}

\* the engine at the start of an operation during which the filters HashMap
\* iterates in the order `order`; the subscriber callback has not been invoked yet
SelfIn(order) == [Self EXCEPT !.filter_order = order]

\* BlockBuilder::new: the inner builder is in the Option, the Mutex is free,
\* and no method has been called
NewBlockBuilder ==
    /\ builder = Some("inner")
    /\ mutex = 0
    /\ futures = [call \in CallIds |-> [pc |-> "new"]]
    /\ acquired = <<>>
    /\ inner_calls = <<>>

\* the engine record `d` becomes the next state; the history `taken` is kept for
\* the snapshots that are still stored
Install(d) ==
    /\ initial_config' = d.initial_config
    /\ blockchain' = d.blockchain
    /\ irregular_state' = d.irregular_state
    /\ mem_pool' = d.mem_pool
    /\ beneficiary' = d.beneficiary
    /\ prev_randao_generator' = d.prev_randao_generator
    /\ block_time_offset_seconds' = d.block_time_offset_seconds
    /\ is_auto_mining' = d.is_auto_mining
    /\ allow_blocks_with_same_timestamp' = d.allow_blocks_with_same_timestamp
    /\ next_block_base_fee_per_gas' = d.next_block_base_fee_per_gas
    /\ next_block_timestamp' = d.next_block_timestamp
    /\ next_snapshot_id' = d.next_snapshot_id
    /\ snapshots' = d.snapshots
    /\ filters' = d.filters
    /\ last_filter_id' = d.last_filter_id
    /\ impersonated_accounts' = d.impersonated_accounts
    /\ min_gas_price' = d.min_gas_price
    /\ local_accounts' = d.local_accounts
    /\ block_state_cache' = d.block_state_cache
    /\ current_state_id' = d.current_state_id
    /\ block_number_to_state_id' = d.block_number_to_state_id
    /\ minted_state_ids' = d.minted_state_ids
    /\ returned_snapshot_ids' = d.returned_snapshot_ids
    /\ returned_filter_ids' = d.returned_filter_ids
    /\ taken' = [id \in DOMAIN d.taken \cap DOMAIN d.snapshots |-> d.taken[id]]
    /\ ops' = ops + 1
    /\ UNCHANGED builder_vars

\* the state after ProviderData::new, for each configuration
InitWith(d) ==
    /\ initial_config = d.initial_config
    /\ blockchain = d.blockchain
    /\ irregular_state = d.irregular_state
    /\ mem_pool = d.mem_pool
    /\ beneficiary = d.beneficiary
    /\ prev_randao_generator = d.prev_randao_generator
    /\ block_time_offset_seconds = d.block_time_offset_seconds
    /\ is_auto_mining = d.is_auto_mining
    /\ allow_blocks_with_same_timestamp = d.allow_blocks_with_same_timestamp
    /\ next_block_base_fee_per_gas = d.next_block_base_fee_per_gas
    /\ next_block_timestamp = d.next_block_timestamp
    /\ next_snapshot_id = d.next_snapshot_id
    /\ snapshots = d.snapshots
    /\ filters = d.filters
    /\ last_filter_id = d.last_filter_id
    /\ impersonated_accounts = d.impersonated_accounts
    /\ min_gas_price = d.min_gas_price
    /\ local_accounts = d.local_accounts
    /\ block_state_cache = d.block_state_cache
    /\ current_state_id = d.current_state_id
    /\ block_number_to_state_id = d.block_number_to_state_id
    /\ minted_state_ids = d.minted_state_ids
    /\ returned_snapshot_ids = d.returned_snapshot_ids
    /\ returned_filter_ids = d.returned_filter_ids
    /\ taken = d.taken
    /\ now = 0
    /\ ops = 0
    /\ ret = [op |-> "new"]
    /\ NewBlockBuilder

Init == \E config \in Configs : InitWith(NewProviderData(config))

\* the instances that bump a block timestamp equal to its parent's
InitStrict ==
    \E config \in {c \in Configs : ~c.allow_blocks_with_same_timestamp} :
        InitWith(NewProviderData(config))

\* the instances whose configuration has auto-mining off
InitManual ==
    \E config \in {c \in Configs : ~c.auto_mine} : InitWith(NewProviderData(config))

----------------------------------------------------------------------------
(* Reads and executions in a block context *)

\* BlockSpec: a block number, or one of the tags
Earliest == [tag |-> "earliest"]
Latest == [tag |-> "latest"]
Pending == [tag |-> "pending"]
Number(n) == [tag |-> "number", number |-> n]

\* ProviderData::block_by_block_spec: the number of the block, None for pending
BlockByBlockSpec(d, block_spec) ==
    CASE block_spec.tag = "number" ->
             IF block_spec.number <= LastBlockNumber(d)
             THEN [ok |-> TRUE, error |-> "none", block_number |-> Some(block_spec.number)]
             ELSE [ok |-> FALSE, error |-> "InvalidBlockNumberOrHash"]
      [] block_spec.tag = "earliest" ->
             [ok |-> TRUE, error |-> "none", block_number |-> Some(0)]
      [] block_spec.tag = "latest" ->
             [ok |-> TRUE, error |-> "none", block_number |-> Some(LastBlockNumber(d))]
      [] block_spec.tag = "pending" ->
             [ok |-> TRUE, error |-> "none", block_number |-> None]

\* ProviderData::mine_pending_block: the next block is mined on a clone of the
\* current state with no prevrandao; nothing is stored but the cached state
MinePendingBlock(d, t_now, fail) ==
    LET ts == NextBlockTimestamp(d, None, t_now)
        result == MineBlock(d, ts.block_timestamp)
    IN  IF fail = "mine_block" THEN [ok |-> FALSE, error |-> fail, d |-> result.d]
        ELSE [ok |-> TRUE, error |-> "none", d |-> result.d, block |-> result.block,
              state |-> result.state]

\* execute_in_block_context on a block of the chain: the function runs on the
\* state get_or_compute_state gives for the block's number
InBlockContext(cs, block_number) ==
    [ok |-> TRUE, error |-> "none", d |-> cs.d, state |-> cs.state,
     blockchain |-> cs.d.blockchain, block_number |-> block_number]

\* execute_in_block_context for the pending block spec, had it inserted the
\* pending block into the blockchain
InPendingContextInserting(result) ==
    IF ~result.ok THEN [ok |-> FALSE, error |-> result.error, d |-> result.d]
    ELSE [ok |-> TRUE, error |-> "none",
          d |-> [result.d EXCEPT !.blockchain = Append(@, result.block)],
          state |-> result.state,
          blockchain |-> Append(result.d.blockchain, result.block),
          block_number |-> Len(result.d.blockchain)]

\* execute_in_block_context for the pending block spec: the function runs on
\* the blockchain with the pending block on top and on the pending state
InPendingContext(result) ==
    IF ~result.ok THEN [ok |-> FALSE, error |-> result.error, d |-> result.d]
    ELSE [ok |-> TRUE, error |-> "none", d |-> result.d, state |-> result.state,
          blockchain |-> Append(result.d.blockchain, result.block),
          block_number |-> Len(result.d.blockchain)]

\* ProviderData::execute_in_block_context: the engine after the call and the
\* blockchain, block and state handed to the function
ExecuteInBlockContextAt(d, found, t_now, fail) ==
    IF ~found.ok THEN [ok |-> FALSE, error |-> found.error, d |-> d]
    ELSE IF IsSome(found.block_number)
    THEN InBlockContext(GetOrComputeState(d, Unwrap(found.block_number)),
                        Unwrap(found.block_number))
    ELSE InPendingContext(MinePendingBlock(d, t_now, fail))

ExecuteInBlockContext(d, block_spec, t_now, fail) ==
    ExecuteInBlockContextAt(d, BlockByBlockSpec(d, block_spec), t_now, fail)

\* the reads of an account: balance, get_code, get_storage_at, get_transaction_count
AccountReads == {"balance", "get_code", "get_storage_at", "get_transaction_count"}

ReadValue(op, account) ==
    CASE op = "balance" -> account.balance
      [] op = "get_code" -> account.code
      [] op = "get_storage_at" -> account.storage
      [] op = "get_transaction_count" -> account.nonce

\* call::run_call (edr_evm) of a transfer: it succeeds if the caller can pay
\* the value, and halts otherwise
RunCall(state, transaction) ==
    IF transaction.value <= state[transaction.caller].balance
    THEN "Success" ELSE "Halt"

----------------------------------------------------------------------------
(* Gas estimation.  The EVM is not part of the engine: a call is given by   *)
(* its gas limit, its minimum (initial) cost, the gas it uses when it       *)
(* succeeds with its gas limit, the gas limits with which it succeeds, and  *)
(* how it fails with the others.  `runs` lists the gas limits the call was  *)
(* executed with.                                                           *)

\* the gas limit of the header of the block the context runs in
HeaderGasLimit(ctx) == ctx.blockchain[ctx.block_number + 1].gas_limit

\* call::run_call of the trial, with the gas limit of the call (the request's,
\* which defaults to the gas limit of the block)
TrialRun(call, gas_limit) ==
    IF gas_limit \in call.succeeds THEN "Success" ELSE call.failure

\* gas::check_gas_limit: whether the call succeeds with the gas limit
CheckGasLimit(call, gas_limit) == gas_limit \in call.succeeds

\* gas::binary_search_estimation: integer bisection of [lower_bound, upper_bound]
\* that ends when lo + 1 >= hi and returns hi
RECURSIVE BinarySearchEstimation(_, _, _, _)
BinarySearchEstimation(call, lower_bound, upper_bound, runs) ==
    IF lower_bound + 1 >= upper_bound
    THEN [estimate |-> upper_bound, runs |-> runs]
    ELSE LET mid == (lower_bound + upper_bound) \div 2
         IN  IF CheckGasLimit(call, mid)
             THEN BinarySearchEstimation(call, lower_bound, mid, Append(runs, mid))
             ELSE BinarySearchEstimation(call, mid, upper_bound, Append(runs, mid))

\* estimate_gas once the initial estimation is known: it is checked, and
\* corrected by the binary search if the call fails with it
EstimateFrom(call, initial_estimation, upper_bound, runs) ==
    IF CheckGasLimit(call, initial_estimation)
    THEN [estimate |-> initial_estimation, runs |-> Append(runs, initial_estimation),
          searched |-> FALSE]
    ELSE [estimate |->
              BinarySearchEstimation(call, initial_estimation, upper_bound,
                                     Append(runs, initial_estimation)).estimate,
          runs |->
              BinarySearchEstimation(call, initial_estimation, upper_bound,
                                     Append(runs, initial_estimation)).runs,
          searched |-> TRUE]

\* an estimate_gas that takes the gas used by the trial as the initial
\* estimation, whatever the minimum cost is
EstimateInContextUnclamped(ctx, call) ==
    IF TrialRun(call, call.gas_limit) # "Success"
    THEN [ok |-> FALSE, error |-> "EstimateGasFailure",
          transaction_failure |-> TrialRun(call, call.gas_limit),
          runs |-> <<call.gas_limit>>, upper_bound |-> HeaderGasLimit(ctx)]
    ELSE [ok |-> TRUE, error |-> "none", upper_bound |-> HeaderGasLimit(ctx),
          found |-> EstimateFrom(call, call.gas_used,
                                 HeaderGasLimit(ctx), <<call.gas_limit>>)]

\* the closure estimate_gas passes to execute_in_block_context
EstimateInContext(ctx, call) ==
    IF TrialRun(call, call.gas_limit) # "Success"
    THEN [ok |-> FALSE, error |-> "EstimateGasFailure",
          transaction_failure |-> TrialRun(call, call.gas_limit),
          runs |-> <<call.gas_limit>>, upper_bound |-> HeaderGasLimit(ctx)]
    ELSE [ok |-> TRUE, error |-> "none", upper_bound |-> HeaderGasLimit(ctx),
          found |-> EstimateFrom(call,
                                 IF call.gas_used <= call.minimum_cost
                                 THEN call.minimum_cost + 1 ELSE call.gas_used,
                                 HeaderGasLimit(ctx), <<call.gas_limit>>)]

\* ProviderData::estimate_gas
EstimateGas(d, call, block_spec, t_now, fail) ==
    LET ctx == ExecuteInBlockContext(d, block_spec, t_now, fail)
    IN  IF ~ctx.ok THEN [ok |-> FALSE, error |-> ctx.error, d |-> ctx.d, runs |-> <<>>]
        ELSE [d |-> ctx.d] @@ EstimateInContext(ctx, call)

----------------------------------------------------------------------------
(* Fee history.  The model's headers hold no base fee: an entry of           *)
(* base_fee_per_gas names the block it is the base fee of and the            *)
(* computation that gives it; an entry of gas_used_ratio holds the gas used  *)
(* and the gas limit of its block.                                           *)

\* the gas used by the transactions with the hashes: every transaction of the
\* model uses its whole gas limit
RECURSIVE GasUsedBy(_)
GasUsedBy(hashes) ==
    IF hashes = <<>> THEN 0
    ELSE (CHOOSE t \in Transactions : t.hash = Head(hashes)).gas_limit
             + GasUsedBy(Tail(hashes))

\* header.gas_used
GasUsed(block) == GasUsedBy(block.transactions)

\* the base_fee_per_gas entry the loop of fee_history pushes for block_number
BaseFeeEntry(block_number, pending_block_number) ==
    IF block_number < pending_block_number
    THEN [block_number |-> block_number, of |-> "header.base_fee_per_gas"]
    ELSE IF block_number = pending_block_number
    THEN [block_number |-> block_number, of |-> "next_block_base_fee_per_gas"]
    ELSE [block_number |-> block_number, of |-> "calculate_next_base_fee(pending)"]

\* the gas_used_ratio entry the loop of fee_history pushes for block_number
GasUsedRatioEntry(chain, pending_block, block_number) ==
    LET block == IF block_number < Len(chain) THEN chain[block_number + 1]
                 ELSE Unwrap(pending_block)
    IN  [block_number |-> block_number, gas_used |-> GasUsed(block),
         gas_limit |-> block.gas_limit]

\* a loop of fee_history that pushes a gas_used_ratio for the last block too
FeeHistoryLoopWithLastRatio(chain, pending_block, oldest_block_number, last_block_number) ==
    [oldest_block |-> oldest_block_number,
     base_fee_per_gas |->
         [i \in 1..(last_block_number - oldest_block_number + 1) |->
             BaseFeeEntry(oldest_block_number + i - 1, Len(chain))],
     gas_used_ratio |->
         [i \in 1..(last_block_number - oldest_block_number + 1) |->
             [block_number |-> oldest_block_number + i - 1]]]

\* the loop of fee_history over first_local_block..=last_block_number (a local
\* blockchain: first_local_block = oldest_block_number)
FeeHistoryLoop(chain, pending_block, oldest_block_number, last_block_number) ==
    [oldest_block |-> oldest_block_number,
     base_fee_per_gas |->
         [i \in 1..(last_block_number - oldest_block_number + 1) |->
             BaseFeeEntry(oldest_block_number + i - 1, Len(chain))],
     gas_used_ratio |->
         [i \in 1..(last_block_number - oldest_block_number) |->
             GasUsedRatioEntry(chain, pending_block, oldest_block_number + i - 1)]]

\* fee_history once the pending block is mined: `mined` is the result of
\* mine_pending_block
FeeHistoryWithPending(mined, oldest_block_number, last_block_number) ==
    IF ~mined.ok THEN [ok |-> FALSE, error |-> mined.error, d |-> mined.d]
    ELSE [ok |-> TRUE, error |-> "none", d |-> mined.d,
          result |-> FeeHistoryLoop(mined.d.blockchain, Some(mined.block),
                                    oldest_block_number, last_block_number)]

\* fee_history once the newest block number is resolved
FeeHistoryUpTo(d, block_count, newest_block_number, t_now, fail) ==
    LET oldest_block_number == IF newest_block_number < block_count THEN 0
                               ELSE newest_block_number - block_count + 1
        last_block_number == newest_block_number + 1
        pending_block_number == LastBlockNumber(d) + 1
    IN  IF last_block_number >= pending_block_number
        THEN FeeHistoryWithPending(MinePendingBlock(d, t_now, fail),
                                   oldest_block_number, last_block_number)
        ELSE [ok |-> TRUE, error |-> "none", d |-> d,
              result |-> FeeHistoryLoop(d.blockchain, None,
                                        oldest_block_number, last_block_number)]

\* ProviderData::fee_history
FeeHistory(d, block_count, newest_block_spec, t_now, fail) ==
    LET found == BlockByBlockSpec(d, newest_block_spec)
    IN  IF ~SpecIdAtLeast(d, "London")
        THEN [ok |-> FALSE, error |-> "UnmetHardfork", d |-> d]
        ELSE IF ~found.ok THEN [ok |-> FALSE, error |-> found.error, d |-> d]
        ELSE FeeHistoryUpTo(d, block_count,
                            IF IsSome(found.block_number) THEN Unwrap(found.block_number)
                            ELSE LastBlockNumber(d) + 1,
                            t_now, fail)

----------------------------------------------------------------------------
(* The operations as actions.  `b` holds the bounds of the specification.   *)

Bounds(height, state_id, max_ops) ==
    [height |-> height, state_id |-> state_id, snapshot_id |-> MaxSnapshotId,
     filter_id |-> MaxFilterId, randao |-> height + MaxRandao, ops |-> max_ops]

Within(d, b) ==
    /\ ops < b.ops
    /\ LastBlockNumber(d) <= b.height
    /\ d.current_state_id <= b.state_id
    /\ d.next_snapshot_id <= b.snapshot_id + 1
    /\ d.last_filter_id <= b.filter_id
    /\ d.prev_randao_generator.seed <= b.randao

\* the error injected into one operation: which call of mine_and_commit_block
\* returns an error, and at which step
NoFailure == {"none"}
NoFailPlan == {[at |-> 0, step |-> "none"]}
\* one failure of the last call that may fail, at the insertion of the block
OneFailPlan == NoFailPlan \cup {[at |-> MaxFailAt, step |-> "insert_block"]}

\* the timestamps a caller passes: around the latest block's
TimestampsNear(d) ==
    {LastBlock(d).timestamp + k : k \in {-1, 0, 1}} \cap Nat

Tick ==
    /\ now < MaxNow
    /\ now' = now + 1
    /\ ret' = [op |-> "tick"]
    /\ UNCHANGED <<blockchain, irregular_state, mem_pool, beneficiary,
                   prev_randao_generator, block_time_offset_seconds, is_auto_mining,
                   next_block_base_fee_per_gas, next_block_timestamp, next_snapshot_id,
                   snapshots, filters, last_filter_id, impersonated_accounts,
                   min_gas_price, local_accounts,
                   block_state_cache,
                   current_state_id, block_number_to_state_id, initial_config,
                   allow_blocks_with_same_timestamp, minted_state_ids,
                   returned_snapshot_ids, returned_filter_ids, taken, ops>>
    /\ UNCHANGED builder_vars

DoMineAndCommitBlock(b, fails) ==
    \E timestamp \in {None} \cup {Some(t) : t \in TimestampsNear(Self)},
       fail \in fails, order \in IterationOrders(DOMAIN filters) :
        LET r == MineAndCommitBlock(SelfIn(order), timestamp, now, fail)
        IN  /\ Within(r.d, b)
            /\ Install(r.d)
            /\ ret' = [op |-> "mine_and_commit_block", timestamp |-> timestamp,
                       ok |-> r.ok, error |-> r.error, callbacks |-> r.d.callbacks,
                       found |-> [base_fee_per_gas |-> next_block_base_fee_per_gas,
                                  timestamp |-> next_block_timestamp]]
            /\ UNCHANGED now

\* ProviderData::interval_mine
DoIntervalMine(b, fails) ==
    \E fail \in fails, order \in IterationOrders(DOMAIN filters) :
        LET r == MineAndCommitBlock(SelfIn(order), None, now, fail)
        IN  /\ Within(r.d, b)
            /\ Install(r.d)
            /\ ret' = [op |-> "interval_mine", ok |-> r.ok, error |-> r.error,
                       callbacks |-> r.d.callbacks]
            /\ UNCHANGED now

DoMineAndCommitBlocks(b, counts, intervals, plans) ==
    \E number_of_blocks \in counts, interval \in intervals, plan \in plans,
       order \in IterationOrders(DOMAIN filters) :
        LET r == MineAndCommitBlocks(SelfIn(order), number_of_blocks, interval, now,
                                     plan.at, plan.step)
        IN  /\ Within(r.d, b)
            /\ Install(r.d)
            /\ ret' = [op |-> "mine_and_commit_blocks", callbacks |-> r.d.callbacks,
                       number_of_blocks |-> number_of_blocks, interval |-> interval,
                       ok |-> r.ok, error |-> r.error, mined |-> Len(r.mined)]
            /\ UNCHANGED now

DoMakeSnapshot(b) ==
    LET r == MakeSnapshot(Self, now)
    IN  /\ Within(r.d, b)
        /\ Install(r.d)
        /\ ret' = [op |-> "make_snapshot", id |-> r.id]
        /\ UNCHANGED now

DoRevertToSnapshot(b) ==
    \E snapshot_id \in 1..next_snapshot_id :
        LET r == RevertToSnapshot(Self, snapshot_id, now)
        IN  /\ Within(r.d, b)
            /\ Install(r.d)
            /\ ret' = [op |-> "revert_to_snapshot", snapshot_id |-> snapshot_id,
                       result |-> r.result,
                       stored |-> snapshot_id \in DOMAIN snapshots,
                       snapshot |-> IF snapshot_id \in DOMAIN snapshots
                                    THEN Some(snapshots[snapshot_id]) ELSE None,
                       taken |-> IF snapshot_id \in DOMAIN taken
                                 THEN Some(taken[snapshot_id]) ELSE None]
            /\ UNCHANGED now

DoSendTransaction(b, plans) ==
    \E transaction \in Transactions, plan \in plans,
       order \in IterationOrders(DOMAIN filters) :
        LET r == SendTransaction(SelfIn(order), transaction, now, plan.at, plan.step,
                                 b.height - LastBlockNumber(Self))
        IN  /\ r.error # "unbounded"
            /\ Within(r.d, b)
            /\ Install(r.d)
            /\ ret' = [op |-> "send_transaction", transaction |-> transaction,
                       auto_mined |-> is_auto_mining, ok |-> r.ok, error |-> r.error,
                       mined |-> r.mined, callbacks |-> r.d.callbacks,
                       transaction_result |-> IF r.ok THEN r.transaction_result ELSE None,
                       nonces |-> IF r.error \in AutoMineNonceErrors
                                  THEN Some([expected |-> r.expected, actual |-> r.actual])
                                  ELSE None]
            /\ UNCHANGED now

\* the blocks of the chain that hold the transaction
BlocksHolding(chain, transaction_hash) ==
    {n \in DOMAIN chain :
        \E i \in 1..Len(chain[n].transactions) : chain[n].transactions[i] = transaction_hash}

\* the first loop of send_transaction can no longer end: the transaction it
\* looks for is in no block and has left the mempool, so no later block holds it
NeverMined(d, transaction_hash) ==
    /\ BlocksHolding(d.blockchain, transaction_hash) = {}
    /\ transaction_hash \notin MemPoolHashes(d.mem_pool)

\* a send_transaction that does not return: it is followed for `blocks` iterations
\* of its first loop, is the last operation of the instance, and no error is
\* injected into its calls of mine_and_commit_block
DoSendTransactionLooping(b, blocks) ==
    \E transaction \in Transactions, order \in IterationOrders(DOMAIN filters) :
        LET r == SendTransaction(SelfIn(order), transaction, now, 0, "none", blocks)
        IN  /\ ops + 1 = b.ops
            /\ r.error = "unbounded"
            /\ NeverMined(r.d, transaction.hash)
            /\ Within(r.d, b)
            /\ Install(r.d)
            /\ ret' = [op |-> "send_transaction", transaction |-> transaction,
                       auto_mined |-> is_auto_mining, ok |-> FALSE, error |-> r.error,
                       mined |-> r.mined, callbacks |-> r.d.callbacks]
            /\ UNCHANGED now

\* ProviderData::transaction_by_hash: the mempool is looked up first, then the
\* blocks of the chain; block_data is the number of the block that holds it
TransactionByHash(d, hash) ==
    IF hash \in MemPoolHashes(d.mem_pool)
    THEN Some([hash |-> hash, block_data |-> None, is_pending |-> TRUE])
    ELSE IF BlocksHolding(d.blockchain, hash) # {}
    THEN Some([hash |-> hash,
               block_data |-> Some((CHOOSE n \in BlocksHolding(d.blockchain, hash) : TRUE) - 1),
               is_pending |-> FALSE])
    ELSE None

DoTransactionByHash(b) ==
    \E transaction \in Transactions :
        /\ ops < b.ops
        /\ Install(Self)
        /\ ret' = [op |-> "transaction_by_hash", hash |-> transaction.hash,
                   result |-> TransactionByHash(Self, transaction.hash)]
        /\ UNCHANGED now

\* ProviderData::remove_pending_transaction
DoRemovePendingTransaction(b) ==
    \E transaction \in Transactions :
        /\ ops < b.ops
        /\ Install([Self EXCEPT
                       !.mem_pool = MemPoolRemoveTransaction(@, transaction.hash)])
        /\ ret' = [op |-> "remove_pending_transaction", hash |-> transaction.hash]
        /\ UNCHANGED now

DoSetBalance(b, fails) ==
    \E address \in Address, balance \in {0, 1}, fail \in fails :
        LET r == SetBalance(Self, address, balance, fail)
        IN  /\ Within(r.d, b)
            /\ Install(r.d)
            /\ ret' = [op |-> "set_balance", address |-> address, value |-> balance,
                       ok |-> r.ok, error |-> r.error]
            /\ UNCHANGED now

DoSetNonce(b, fails) ==
    \E address \in Address, nonce \in {0, 1}, fail \in fails :
        LET r == SetNonce(Self, address, nonce, fail)
        IN  /\ Within(r.d, b)
            /\ Install(r.d)
            /\ ret' = [op |-> "set_nonce", address |-> address, value |-> nonce,
                       ok |-> r.ok, error |-> r.error]
            /\ UNCHANGED now

DoSetCode(b, addresses) ==
    \E address \in addresses, code \in {1} :
        LET r == SetCode(Self, address, code)
        IN  /\ Within(r.d, b)
            /\ Install(r.d)
            /\ ret' = [op |-> "set_code", address |-> address, value |-> code,
                       ok |-> r.ok, error |-> r.error]
            /\ UNCHANGED now

DoSetAccountStorageSlot(b) ==
    \E address \in Address, value \in {1} :
        LET r == SetAccountStorageSlot(Self, address, value)
        IN  /\ Within(r.d, b)
            /\ Install(r.d)
            /\ ret' = [op |-> "set_account_storage_slot", address |-> address,
                       value |-> value, ok |-> r.ok, error |-> r.error]
            /\ UNCHANGED now

DoSetBlockGasLimit(b) ==
    \E gas_limit \in GasLimits :
        LET d == SetBlockGasLimit(Self, gas_limit)
        IN  /\ Within(d, b)
            /\ Install(d)
            /\ ret' = [op |-> "set_block_gas_limit", gas_limit |-> gas_limit]
            /\ UNCHANGED now

\* ProviderData::set_min_gas_price
SetMinGasPrice(d, price) ==
    IF HardforkRank(SpecId(d)) >= HardforkRank("London")
    THEN [ok |-> FALSE, error |-> "SetMinGasPriceUnsupported", d |-> d]
    ELSE [ok |-> TRUE, error |-> "none", d |-> [d EXCEPT !.min_gas_price = price]]

DoSetMinGasPrice(b) ==
    \E price \in {0, 1} :
        LET r == SetMinGasPrice(Self, price)
        IN  /\ ops < b.ops
            /\ Install(r.d)
            /\ ret' = [op |-> "set_min_gas_price", min_gas_price |-> price,
                       ok |-> r.ok, error |-> r.error]
            /\ UNCHANGED now

\* ProviderData::set_coinbase
DoSetCoinbase(b) ==
    \E coinbase \in Coinbase :
        /\ ops < b.ops
        /\ Install([Self EXCEPT !.beneficiary = coinbase])
        /\ ret' = [op |-> "set_coinbase", coinbase |-> coinbase]
        /\ UNCHANGED now

\* ProviderData::set_next_block_base_fee_per_gas (the hardfork is London or later)
DoSetNextBlockBaseFeePerGas(b) ==
    \E base_fee_per_gas \in {1} :
        /\ ops < b.ops
        /\ Install([Self EXCEPT !.next_block_base_fee_per_gas = Some(base_fee_per_gas)])
        /\ ret' = [op |-> "set_next_block_base_fee_per_gas", value |-> base_fee_per_gas]
        /\ UNCHANGED now

DoSetNextBlockTimestamp(b) ==
    \E timestamp \in TimestampsNear(Self) :
        LET r == SetNextBlockTimestamp(Self, timestamp)
        IN  /\ Within(r.d, b)
            /\ Install(r.d)
            /\ ret' = [op |-> "set_next_block_timestamp", timestamp |-> timestamp,
                       ok |-> r.ok, error |-> r.error]
            /\ UNCHANGED now

\* ProviderData::set_next_prev_randao (the hardfork is the Merge or later)
DoSetNextPrevRandao(b) ==
    \E prev_randao \in {0} :
        /\ ops < b.ops
        /\ Install([Self EXCEPT
                       !.prev_randao_generator = RandaoSetNext(@, prev_randao)])
        /\ ret' = [op |-> "set_next_prev_randao", value |-> prev_randao]
        /\ UNCHANGED now

\* ProviderData::increase_block_time
DoIncreaseBlockTime(b) ==
    \E increment \in {1} :
        /\ block_time_offset_seconds + increment <= MaxOffset
        /\ ops < b.ops
        /\ Install([Self EXCEPT !.block_time_offset_seconds = @ + increment])
        /\ ret' = [op |-> "increase_block_time", increment |-> increment]
        /\ UNCHANGED now

\* ProviderData::set_auto_mining
DoSetAutoMining(b) ==
    \E enabled \in BOOLEAN :
        /\ ops < b.ops
        /\ Install([Self EXCEPT !.is_auto_mining = enabled])
        /\ ret' = [op |-> "set_auto_mining", enabled |-> enabled]
        /\ UNCHANGED now

DoAddFilter(b) ==
    \E kind \in FilterKinds, is_subscription \in BOOLEAN :
        LET r == AddFilter(Self, kind, is_subscription, now)
        IN  /\ Within(r.d, b)
            /\ Install(r.d)
            /\ ret' = [op |-> "add_filter", kind |-> kind, id |-> r.id]
            /\ UNCHANGED now

\* ProviderData::remove_filter and remove_subscription
DoRemoveFilter(b) ==
    \E filter_id \in 1..last_filter_id, is_subscription \in BOOLEAN :
        LET r == RemoveFilterImpl(Self, filter_id, is_subscription)
        IN  /\ Within(r.d, b)
            /\ Install(r.d)
            /\ ret' = [op |-> "remove_filter", id |-> filter_id, result |-> r.result]
            /\ UNCHANGED now

DoGetFilterChanges(b) ==
    \E filter_id \in 1..last_filter_id :
        LET r == GetFilterChanges(Self, filter_id, now)
        IN  /\ Within(r.d, b)
            /\ Install(r.d)
            /\ ret' = [op |-> "get_filter_changes", id |-> filter_id,
                       events |-> r.events]
            /\ UNCHANGED now

\* ProviderData::balance at a block number (execute_in_block_context)
DoBalance(b, addresses, block_numbers) ==
    \E address \in addresses, block_number \in block_numbers \cap 0..LastBlockNumber(Self) :
        LET r == GetOrComputeState(Self, block_number)
        IN  /\ Within(r.d, b)
            /\ Install(r.d)
            /\ ret' = [op |-> "balance", address |-> address,
                       block_number |-> block_number,
                       value |-> r.state[address].balance]
            /\ UNCHANGED now

\* the block specs a caller passes: the tags, the numbers of the chain and one
\* number above them
BlockSpecs(d) ==
    {Earliest, Latest, Pending} \cup {Number(n) : n \in 0..(LastBlockNumber(d) + 1)}

\* the steps of a read that can return an error: the mining of the pending block
ReadFailures == {"none", "mine_block"}

\* ProviderData::balance, get_code, get_storage_at, get_transaction_count
DoRead(b, addresses, fails) ==
    \E op \in AccountReads, address \in addresses, block_spec \in BlockSpecs(Self),
       fail \in fails :
        LET r == ExecuteInBlockContext(Self, block_spec, now, fail)
        IN  /\ Within(r.d, b)
            /\ Install(r.d)
            /\ ret' = [op |-> op, address |-> address, block_spec |-> block_spec,
                       ok |-> r.ok, error |-> r.error,
                       value |-> IF r.ok THEN Some(ReadValue(op, r.state[address]))
                                 ELSE None]
            /\ UNCHANGED now

\* ProviderData::run_call and debug_trace_call
DoRunCall(b, transactions, fails) ==
    \E op \in {"run_call", "debug_trace_call"}, transaction \in transactions,
       block_spec \in BlockSpecs(Self), fail \in fails :
        LET r == ExecuteInBlockContext(Self, block_spec, now, fail)
        IN  /\ Within(r.d, b)
            /\ Install(r.d)
            /\ ret' = [op |-> op, transaction |-> transaction,
                       block_spec |-> block_spec, ok |-> r.ok, error |-> r.error,
                       execution_result |-> IF r.ok THEN Some(RunCall(r.state, transaction))
                                            ELSE None]
            /\ UNCHANGED now

\* ProviderData::debug_trace_transaction: the transaction is traced on the state
\* of the block before the one that holds it
DoDebugTraceTransaction(b) ==
    \E transaction \in Transactions :
        LET holding == BlocksHolding(blockchain, transaction.hash)
            r == IF holding = {}
                 THEN [ok |-> FALSE, error |-> "InvalidTransactionHash", d |-> Self]
                 ELSE ExecuteInBlockContext(
                          Self, Number((CHOOSE n \in holding : TRUE) - 2), now, "none")
        IN  /\ Within(r.d, b)
            /\ Install(r.d)
            /\ ret' = [op |-> "debug_trace_transaction", hash |-> transaction.hash,
                       ok |-> r.ok, error |-> r.error,
                       traced_on |-> IF r.ok THEN Some(r.block_number) ELSE None]
            /\ UNCHANGED now

\* ProviderData::mine_pending_block
DoMinePendingBlock(b, fails) ==
    \E fail \in fails :
        LET r == MinePendingBlock(Self, now, fail)
        IN  /\ Within(r.d, b)
            /\ Install(r.d)
            /\ ret' = [op |-> "mine_pending_block", ok |-> r.ok, error |-> r.error,
                       block |-> IF r.ok THEN Some(r.block) ELSE None]
            /\ UNCHANGED now

\* the calls whose gas is estimated, for a block gas limit (see the section on
\* gas estimation): the gas limit of a call is within the block's, the gas a
\* run uses is within the gas limit of the call and includes the minimum cost,
\* which is below the block gas limit
Calls(gas_limit) ==
    {call \in [gas_limit : 1..gas_limit, minimum_cost : 0..(gas_limit - 1),
               gas_used : 1..gas_limit, succeeds : SUBSET (1..gas_limit),
               failure : {"Revert", "Halt"}] :
        call.minimum_cost <= call.gas_used /\ call.gas_used <= call.gas_limit}

\* a call the block of the context has room for: its gas limit is within the
\* gas limit of the block, and its minimum cost is below it
CallFits(call, ctx) ==
    /\ call.gas_limit <= HeaderGasLimit(ctx)
    /\ call.minimum_cost < HeaderGasLimit(ctx)

\* ProviderData::estimate_gas
DoEstimateGas(b, calls, fails) ==
    \E block_spec \in BlockSpecs(Self), call \in calls, fail \in fails :
        LET ctx == ExecuteInBlockContext(Self, block_spec, now, fail)
            r == EstimateGas(Self, call, block_spec, now, fail)
        IN  /\ ctx.ok => CallFits(call, ctx)
            /\ Within(r.d, b)
            /\ Install(r.d)
            /\ ret' = [op |-> "estimate_gas", call |-> call, block_spec |-> block_spec,
                       ok |-> r.ok, error |-> r.error,
                       runs |-> IF r.ok THEN r.found.runs ELSE r.runs,
                       estimate |-> IF r.ok THEN Some(r.found.estimate) ELSE None,
                       searched |-> r.ok /\ r.found.searched,
                       upper_bound |-> IF ctx.ok THEN Some(HeaderGasLimit(ctx)) ELSE None]
            /\ UNCHANGED now

\* ProviderData::fee_history
DoFeeHistory(b, block_counts, fails) ==
    \E block_count \in block_counts, newest_block_spec \in BlockSpecs(Self),
       fail \in fails :
        LET r == FeeHistory(Self, block_count, newest_block_spec, now, fail)
        IN  /\ Within(r.d, b)
            /\ Install(r.d)
            /\ ret' = [op |-> "fee_history", block_count |-> block_count,
                       newest_block_spec |-> newest_block_spec,
                       ok |-> r.ok, error |-> r.error,
                       result |-> IF r.ok THEN Some(r.result) ELSE None]
            /\ UNCHANGED now

\* ProviderData::impersonate_account
DoImpersonateAccount(b) ==
    \E address \in Address :
        /\ ops < b.ops
        /\ Install([Self EXCEPT !.impersonated_accounts = @ \cup {address}])
        /\ ret' = [op |-> "impersonate_account", address |-> address]
        /\ UNCHANGED now

\* ProviderData::stop_impersonating_account
DoStopImpersonatingAccount(b) ==
    \E address \in Address :
        /\ ops < b.ops
        /\ Install([Self EXCEPT !.impersonated_accounts = @ \ {address}])
        /\ ret' = [op |-> "stop_impersonating_account", address |-> address,
                   result |-> address \in impersonated_accounts]
        /\ UNCHANGED now

\* ProviderData::reset(None)
DoReset(b) ==
    /\ ops < b.ops
    /\ Install(Reset(Self))
    /\ ret' = [op |-> "reset",
               replaced |-> [block_number |-> LastBlockNumber(Self),
                             filters |-> DOMAIN filters,
                             snapshots |-> DOMAIN snapshots,
                             irregular_state |-> DOMAIN irregular_state,
                             mem_pool |-> MemPoolHashes(mem_pool),
                             impersonated_accounts |-> impersonated_accounts,
                             is_auto_mining |-> is_auto_mining]]
    /\ UNCHANGED now

----------------------------------------------------------------------------
(* Bulk mining: mine_and_commit_blocks on chains long enough to reserve    *)
(* blocks, with and without pending transactions, at any interval.         *)

\* the largest number of blocks asked of one mine_and_commit_blocks
MaxBulkBlocks == 9
MaxSmallBulk == 3
\* the chain height, the StateIds and the operations the bulk specification follows
MaxBulkHeight == 10
MaxBulkStateId == 6
MaxBulkOps == 3

\* the block counts tried: the small ones, and the ones around the point where
\* enough blocks remain to be reserved
BulkCounts == (0..MaxSmallBulk) \cup {MaxBulkBlocks - 1, MaxBulkBlocks}

BulkBounds == Bounds(MaxBulkHeight, MaxBulkStateId, MaxBulkOps)

NextBulk ==
    \/ Tick
    \/ DoSendTransaction(BulkBounds, NoFailPlan)
    \/ DoMineAndCommitBlocks(BulkBounds, BulkCounts, {0, 1, 2}, NoFailPlan)
    \/ DoSetNextBlockTimestamp(BulkBounds)
    \/ DoIncreaseBlockTime(BulkBounds)

SpecBulk == InitManual /\ [][NextBulk]_vars

----------------------------------------------------------------------------
(* mine_and_commit_blocks: the number of blocks and their timestamps *)

\* the call that has just returned was a successful mine_and_commit_blocks
BulkSucceeded(r) == r.op = "mine_and_commit_blocks" /\ r.ok

\* C1: a successful mine_and_commit_blocks(n, interval) with n >= 1 raises the
\* last block number by exactly n, the reserved blocks included; with n = 0 it
\* returns an empty list and leaves the whole engine as it was
C1_BulkRaisesHeightByN ==
    [][BulkSucceeded(ret') =>
          IF ret'.number_of_blocks = 0
          THEN ret'.mined = 0 /\ Self' = Self
          ELSE LastBlockNumberOf(blockchain') =
                   LastBlockNumberOf(blockchain) + ret'.number_of_blocks]_vars

\* a successful bulk mine that went through the reservation: fewer blocks were
\* returned than the chain grew by
C1_Witness ==
    /\ BulkSucceeded(ret)
    /\ ret.number_of_blocks >= MINIMUM_RESERVABLE_BLOCKS + 2
    /\ ret.mined < ret.number_of_blocks
    /\ \E i \in DOMAIN blockchain : blockchain[i].reserved

\* the blocks a bulk mine appended after its first one, as indexes of the chain
LaterBlocks(before, after) == (Len(before) + 2)..Len(after)

----------------------------------------------------------------------------
(* Snapshots: make_snapshot, the operations a snapshot is to undo, and      *)
(* revert_to_snapshot                                                       *)

MaxSnapHeight == 2
MaxSnapStateId == 4
MaxSnapOps == 3

SnapBounds == Bounds(MaxSnapHeight, MaxSnapStateId, MaxSnapOps)

NextSnap ==
    \/ Tick
    \/ DoMakeSnapshot(SnapBounds)
    \/ DoRevertToSnapshot(SnapBounds)
    \/ DoMineAndCommitBlock(SnapBounds, NoFailure)
    \/ DoSendTransaction(SnapBounds, OneFailPlan)
    \/ DoSetBalance(SnapBounds, NoFailure)
    \/ DoSetCoinbase(SnapBounds)
    \/ DoSetNextBlockBaseFeePerGas(SnapBounds)
    \/ DoSetNextBlockTimestamp(SnapBounds)
    \/ DoSetNextPrevRandao(SnapBounds)
    \/ DoIncreaseBlockTime(SnapBounds)

SpecSnap == InitStrict /\ [][NextSnap]_vars

\* the call that has just returned was revert_to_snapshot
Reverted(r) == r.op = "revert_to_snapshot"

\* C3: a revert_to_snapshot(id) that returns true leaves the last block number,
\* the coinbase, the mempool, the irregular state, next_block_base_fee_per_gas,
\* next_block_timestamp, the prev-randao generator and the block-number-to-
\* state-id index as they were when make_snapshot returned id, whatever was done
\* in between
C3_RevertRestoresSnapshot ==
    (Reverted(ret) /\ ret.result) => Some(Observed(Self)) = ret.taken

\* a successful revert to a snapshot of the fresh engine, after a state id was
\* minted by a mined block or an admin mutation: the index is the initial one again
C3_Witness ==
    /\ Reverted(ret) /\ ret.result
    /\ minted_state_ids # <<>>
    /\ DOMAIN block_number_to_state_id = {0}
    /\ block_number_to_state_id[0] = 0

\* C4: revert_to_snapshot(id) returns true exactly when a snapshot with that id
\* was stored when it was called, and once it has returned, true or false, no
\* snapshot with an id >= id is stored: a snapshot is reverted to at most once
C4_RevertTrueIffStored ==
    Reverted(ret) =>
        /\ ret.result = ret.stored
        /\ \A id \in DOMAIN snapshots : id < ret.snapshot_id

\* a revert to an id that make_snapshot handed out and that is stored no more:
\* it returns false
C4_Witness ==
    /\ Reverted(ret) /\ ~ret.result
    /\ \E i \in DOMAIN returned_snapshot_ids : returned_snapshot_ids[i] = ret.snapshot_id

\* C5 as stated: after a revert that returns true the offset is the recorded
\* offset plus the seconds elapsed since make_snapshot, and now + new offset
\* equals the snapshot's wall-clock time + its recorded offset
C5_AsStated ==
    (Reverted(ret) /\ ret.result) =>
        /\ block_time_offset_seconds =
               Unwrap(ret.snapshot).block_time_offset_seconds
               + (now - Unwrap(ret.snapshot).time)
        /\ now + block_time_offset_seconds =
               Unwrap(ret.snapshot).time + Unwrap(ret.snapshot).block_time_offset_seconds

\* C9: the ids make_snapshot returns, the throwaway snapshots of an auto-mined
\* send_transaction included, start at 1 and are strictly increasing in call
\* order, so no id is handed out twice
C9_SnapshotIdsIncrease ==
    /\ returned_snapshot_ids # <<>> => returned_snapshot_ids[1] = 1
    /\ \A i, j \in DOMAIN returned_snapshot_ids :
           i < j => returned_snapshot_ids[i] < returned_snapshot_ids[j]

\* make_snapshot has just returned an id while an earlier id is stored no more
C9_Witness ==
    /\ ret.op = "make_snapshot"
    /\ ret.id >= 2
    /\ 1 \notin DOMAIN snapshots

----------------------------------------------------------------------------
(* Mining after the next block's base fee and timestamp were set *)

MaxMineHeight == 3
MaxMineStateId == 4
MaxMineOps == 3

MineBounds == Bounds(MaxMineHeight, MaxMineStateId, MaxMineOps)

NextMine ==
    \/ Tick
    \/ DoSetNextBlockBaseFeePerGas(MineBounds)
    \/ DoSetNextBlockTimestamp(MineBounds)
    \/ DoMineAndCommitBlock(MineBounds, MineFailures)
    \/ DoIntervalMine(MineBounds, NoFailure)
    \/ DoMineAndCommitBlocks(MineBounds, {1, 2}, {1}, OneFailPlan)
    \/ DoSendTransaction(MineBounds, OneFailPlan)

SpecMine == Init /\ [][NextMine]_vars

\* the operation that has just returned ended with a successful
\* mine_and_commit_block: called directly, by interval_mine, by
\* mine_and_commit_blocks, or by an auto-mining send_transaction
EndedWithMinedBlock(r) ==
    \/ r.op = "mine_and_commit_block" /\ r.ok
    \/ r.op = "interval_mine" /\ r.ok
    \/ r.op = "mine_and_commit_blocks" /\ r.ok /\ r.number_of_blocks >= 1
    \/ r.op = "send_transaction" /\ r.ok /\ r.auto_mined

\* C6: after every successful mine_and_commit_block, with or without a
\* timestamp argument, called directly or through interval_mine,
\* mine_and_commit_blocks or send_transaction, next_block_base_fee_per_gas and
\* next_block_timestamp are both unset
C6_MinedBlockClearsOverrides ==
    EndedWithMinedBlock(ret) =>
        IsNone(next_block_base_fee_per_gas) /\ IsNone(next_block_timestamp)

\* a successful mine_and_commit_block with a timestamp argument that found the
\* base fee and the timestamp of the next block both set
C6_Witness ==
    /\ ret.op = "mine_and_commit_block" /\ ret.ok
    /\ IsSome(ret.timestamp)
    /\ IsSome(ret.found.base_fee_per_gas) /\ IsSome(ret.found.timestamp)

----------------------------------------------------------------------------
(* The mempool against the committed state *)

MaxPoolHeight == 2
MaxPoolStateId == 4
MaxPoolOps == 3

PoolBounds == Bounds(MaxPoolHeight, MaxPoolStateId, MaxPoolOps)

NextPool ==
    \/ DoSendTransaction(PoolBounds, NoFailPlan)
    \/ DoIntervalMine(PoolBounds, MineFailures)
    \/ DoMakeSnapshot(PoolBounds)
    \/ DoRevertToSnapshot(PoolBounds)
    \/ DoSetBalance(PoolBounds, NoFailure)
    \/ DoSetNonce(PoolBounds, NoFailure)
    \/ DoSetCode(PoolBounds, Address)
    \/ DoSetBlockGasLimit(PoolBounds)

SpecPool == InitManual /\ [][NextPool]_vars

\* the operation that has just returned is a commit, an admin state mutation,
\* set_block_gas_limit or a snapshot revert, and it succeeded
CommittedOrMutated(r) ==
    \/ r.op \in {"interval_mine", "set_balance", "set_nonce"} /\ r.ok
    \/ r.op \in {"set_code", "set_block_gas_limit"}
    \/ r.op = "revert_to_snapshot" /\ r.result

\* every transaction of the mempool has a nonce >= its sender's nonce in the
\* current state and a gas limit <= the mempool's block gas limit
MemPoolFitsState(d) ==
    \A i \in 1..Len(d.mem_pool.transactions) :
        /\ d.mem_pool.transactions[i].nonce >=
               CurrentState(d).state[d.mem_pool.transactions[i].caller].nonce
        /\ d.mem_pool.transactions[i].gas_limit <= d.mem_pool.block_gas_limit

\* C7 as stated: after any commit, admin state mutation, set_block_gas_limit or
\* snapshot revert, every transaction in the mempool has a nonce >= the committed
\* nonce of its sender in the current state and a gas limit <= the mempool's
\* block gas limit
C7_AsStated == CommittedOrMutated(ret) => MemPoolFitsState(Self)

----------------------------------------------------------------------------
(* Filters: their ids, their removal and their expiry *)

MaxFilterHeight == 2
MaxFilterStateId == 3
MaxFilterOps == 4

FilterBounds == Bounds(MaxFilterHeight, MaxFilterStateId, MaxFilterOps)

NextFilter ==
    \/ Tick
    \/ DoAddFilter(FilterBounds)
    \/ DoRemoveFilter(FilterBounds)
    \/ DoGetFilterChanges(FilterBounds)
    \/ DoIntervalMine(FilterBounds, NoFailure)
    \/ DoReset(FilterBounds)

SpecFilter == InitManual /\ [][NextFilter]_vars

\* C8: the ids add_block_filter, add_log_filter and
\* add_pending_transaction_filter have returned in this instance start at 1 and
\* each is strictly greater than every id returned before it, whatever the kinds
\* and whichever filters were removed or have expired, so no id is reused
C8_FilterIdsIncrease ==
    /\ returned_filter_ids # <<>> => returned_filter_ids[1] = 1
    /\ \A i, j \in DOMAIN returned_filter_ids :
           i < j => returned_filter_ids[i] < returned_filter_ids[j]

\* a filter was added after the filter with the id below its own was removed or
\* had expired
C8_Witness ==
    /\ ret.op = "add_filter"
    /\ ret.id >= 2
    /\ (ret.id - 1) \notin DOMAIN filters

----------------------------------------------------------------------------
(* The state cache, filled beyond its capacity: blocks are mined or         *)
(* reserved and a snapshot is made while the cache is nearly empty,         *)
(* set_code then fills the cache, and once it is full historical blocks     *)
(* are read and the snapshot is reverted to                                 *)

MaxCacheHeight == 9
MaxEarlyStateId == 5
MaxStatesAfterFull == 2
MaxOpsAfterFull == 4

\* the block mined first of all
FirstBounds ==
    Bounds(MaxCacheHeight, 1, MAX_CACHED_STATES + MaxOpsAfterFull)

\* the operations made while the cache is nearly empty
EarlyBounds ==
    [Bounds(MaxCacheHeight, MaxEarlyStateId, MAX_CACHED_STATES + MaxOpsAfterFull)
        EXCEPT !.snapshot_id = 1]

\* the operations made at any time
CacheBounds ==
    [Bounds(MaxCacheHeight, MAX_CACHED_STATES + MaxStatesAfterFull,
            MAX_CACHED_STATES + MaxOpsAfterFull)
        EXCEPT !.snapshot_id = 1]

CacheIsFull == Len(block_state_cache) >= MAX_CACHED_STATES

NextCache ==
    \/ DoIntervalMine(FirstBounds, NoFailure)
    \/ DoMineAndCommitBlocks(EarlyBounds, {MaxCacheHeight}, {1}, NoFailPlan)
    \/ DoMakeSnapshot(EarlyBounds)
    \/ DoSetCode(CacheBounds, {"a1"})
    \/ CacheIsFull /\ DoBalance(CacheBounds, {"a1"}, {0, MaxCacheHeight - 1})
    \/ CacheIsFull /\ DoRevertToSnapshot(CacheBounds)

SpecCache == InitManual /\ [][NextCache]_vars

\* C10: the StateIds minted by add_state_to_cache in this instance, after a
\* mined block, an admin mutation, a reservation or the recomputation of a
\* state whose block number is already indexed, are strictly increasing in the
\* order they were minted, also across revert_to_snapshot, so no id names two states
C10_StateIdsIncrease ==
    \A i, j \in DOMAIN minted_state_ids :
        i < j => minted_state_ids[i] < minted_state_ids[j]

\* the cache has evicted the first state, and the state of a block whose number
\* was already indexed has just been recomputed and indexed with the new id
C10_Witness ==
    /\ ret.op = "balance"
    /\ Len(minted_state_ids) > MAX_CACHED_STATES
    /\ block_number_to_state_id[ret.block_number] = current_state_id
    /\ minted_state_ids[Len(minted_state_ids)] = current_state_id
    /\ ~LruContains(block_state_cache, 0)

\* the ids of the states held by a cache
CachedIds(cache) == {cache[i].id : i \in 1..Len(cache)}

\* the block numbers whose indexed id names no state of the cache
EvictedBlockNumbers ==
    {n \in DOMAIN block_number_to_state_id :
        ~LruContains(block_state_cache, block_number_to_state_id[n])}

\* C11: the state cache never holds more than MAX_CACHED_STATES (64) states; a
\* step that evicts a state removes no entry of the block-number-to-state-id
\* index; and a read of a block number whose indexed id was evicted recomputes
\* the state from the blockchain with the irregular overrides, caches it under
\* a freshly minted id and remaps the block number to that id
C11_EvictionKeepsIndex ==
    [][/\ Len(block_state_cache') <= MAX_CACHED_STATES
       /\ (CachedIds(block_state_cache) \ CachedIds(block_state_cache') # {}
             => DOMAIN block_number_to_state_id \subseteq DOMAIN block_number_to_state_id')
       /\ (ret'.op = "balance" /\ ret'.block_number \in EvictedBlockNumbers
             => LET recomputed == StateAtBlockNumber(blockchain, ret'.block_number,
                                                     irregular_state)
                IN  /\ current_state_id' = current_state_id + 1
                    /\ current_state_id' \notin CachedIds(block_state_cache)
                    /\ block_number_to_state_id'[ret'.block_number] = current_state_id'
                    /\ LruContains(block_state_cache', current_state_id')
                    /\ LruPeek(block_state_cache', current_state_id') = recomputed
                    /\ ret'.value = recomputed[ret'.address].balance)]_vars

\* the full cache has just served a read of a block below an irregular override
\* whose indexed id had been evicted, and another indexed id is still evicted
C11_Witness ==
    /\ ret.op = "balance"
    /\ Len(block_state_cache) = MAX_CACHED_STATES
    /\ block_number_to_state_id[ret.block_number] = current_state_id
    /\ ret.block_number \in DOMAIN irregular_state
    /\ EvictedBlockNumbers # {}

\* C12: in every state reached after an operation returns, the latest block
\* number has an entry in the block-number-to-state-id index and the id of that
\* entry names a state that is present in the cache
C12_AsStated ==
    /\ LastBlockNumberOf(blockchain) \in DOMAIN block_number_to_state_id
    /\ LruContains(block_state_cache,
                   block_number_to_state_id[LastBlockNumberOf(blockchain)])

----------------------------------------------------------------------------
(* The cached state of the latest block against the state the blockchain    *)
(* materialises: transactions are admitted to the mempool, blocks are mined *)
(* one by one or in bulk (with a reservation), and the admin operations     *)
(* change accounts in between                                               *)

MaxRootHeight == 9
MaxRootStateId == 6
MaxRootOps == 3

RootBounds == Bounds(MaxRootHeight, MaxRootStateId, MaxRootOps)

NextRoot ==
    \/ DoSendTransaction(RootBounds, NoFailPlan)
    \/ DoMineAndCommitBlock(RootBounds, NoFailure)
    \/ DoMineAndCommitBlocks(RootBounds, {2, MaxRootHeight - 1}, {1}, NoFailPlan)
    \/ DoSetBalance(RootBounds, NoFailure)
    \/ DoSetNonce(RootBounds, NoFailure)
    \/ DoSetCode(RootBounds, Address)
    \/ DoSetAccountStorageSlot(RootBounds)

SpecRoot == InitManual /\ [][NextRoot]_vars

\* the state the blockchain materialises for the latest block number with the
\* current irregular overrides
MaterialisedLatest ==
    StateAtBlockNumber(blockchain, LastBlockNumberOf(blockchain), irregular_state)

----------------------------------------------------------------------------
(* send_transaction with and without auto-mining: the flag is switched,     *)
(* transactions are sent, balances, the coinbase and the next block's       *)
(* timestamp are set, snapshots are made and reverted to, the instance is   *)
(* reset, and a call of mine_and_commit_block inside send_transaction may   *)
(* return an error                                                          *)

MaxAutoHeight == 3
MaxAutoStateId == 6
MaxAutoOps == 4
\* the iterations followed of a send_transaction that does not return
MaxLoopBlocks == 2

AutoBounds == Bounds(MaxAutoHeight, MaxAutoStateId, MaxAutoOps)

\* no error, or an error at any step of one of the first calls of mine_and_commit_block
AutoFailPlans ==
    NoFailPlan \cup [at : 1..MaxFailAt, step : MineFailures \ {"none"}]

NextAuto ==
    \/ DoSetAutoMining(AutoBounds)
    \/ DoSendTransaction(AutoBounds, AutoFailPlans)
    \/ DoSendTransactionLooping(AutoBounds, MaxLoopBlocks)
    \/ DoSetBalance(AutoBounds, NoFailure)
    \/ DoSetCoinbase(AutoBounds)
    \/ DoSetNextBlockTimestamp(AutoBounds)
    \/ DoMakeSnapshot(AutoBounds)
    \/ DoRevertToSnapshot(AutoBounds)
    \/ DoReset(AutoBounds)

SpecAuto == Init /\ [][NextAuto]_vars

\* the snapshot an auto-mined send_transaction made: the one with the last id minted
ThrowawaySnapshotId(d_next_snapshot_id) == d_next_snapshot_id - 1

\* C14: with auto-mining on, every send_transaction call returns, and a call
\* that returns success has committed at least one block, one of the blocks it
\* committed holds the submitted transaction, the mempool has no pending
\* transaction left, the snapshot the call made is no longer stored, and
\* mining_results has one entry per block the call committed
C14_AsStated ==
    [][ret'.op = "send_transaction" /\ ret'.auto_mined
        => /\ ret'.error # "unbounded"
           /\ ret'.ok
               => /\ ret'.mined >= 1
                  /\ LastBlockNumberOf(blockchain') = LastBlockNumberOf(blockchain) + ret'.mined
                  /\ \E n \in BlocksHolding(blockchain', ret'.transaction.hash) :
                         n > Len(blockchain)
                  /\ ~HasPendingTransactions(mem_pool')
                  /\ ThrowawaySnapshotId(next_snapshot_id') \notin DOMAIN snapshots'
                  /\ next_snapshot_id' = next_snapshot_id + 1]_vars

\* the errors of the mempool's admission
AdmissionErrors ==
    {"TransactionAlreadyExists", "ExceedsBlockGasLimit", "NonceTooLow", "InsufficientFunds"}

\* an auto-mined send_transaction returned the error `r` of the mempool's
\* admission or of one of its calls of mine_and_commit_block
FailedInSnapshot(r) ==
    /\ r.op = "send_transaction" /\ r.auto_mined /\ ~r.ok
    /\ r.error \in AdmissionErrors \cup (MineFailures \ {"none"})

\* C15: with auto-mining on, a send_transaction whose mempool admission or
\* whose mine_and_commit_block fails returns that error with the engine back at
\* the state before the call: the last block number, the mempool, the irregular
\* state, the coinbase, next_block_base_fee_per_gas and next_block_timestamp
\* are those before the call, and the stored snapshots are those stored before
C15_FailedSendRestores ==
    [][FailedInSnapshot(ret')
        => /\ LastBlockNumberOf(blockchain') = LastBlockNumberOf(blockchain)
           /\ blockchain' = blockchain
           /\ mem_pool' = mem_pool
           /\ irregular_state' = irregular_state
           /\ beneficiary' = beneficiary
           /\ next_block_base_fee_per_gas' = next_block_base_fee_per_gas
           /\ next_block_timestamp' = next_block_timestamp
           /\ snapshots' = snapshots]_vars

\* a send_transaction has committed a block and failed in the mempool update of
\* its second block, on an engine with a pending transaction, a stored snapshot
\* and a timestamp set for the next block
C15_Witness ==
    /\ FailedInSnapshot(ret)
    /\ ret.error = "mem_pool_update"
    /\ ret.mined = 1
    /\ HasTransactions(mem_pool)
    /\ IsSome(next_block_timestamp)

\* the sender's next nonce before the call: account_next_nonce on the engine
NextNonceBefore(transaction) == AccountNextNonce(Self, transaction.caller).nonce

\* C16: with auto-mining on, send_transaction of a transaction whose nonce is
\* not its sender's next nonce fails with AutoMineNonceTooLow (lower) or
\* AutoMineNonceTooHigh (higher), with expected = the next nonce and actual =
\* the transaction's nonce, and leaves the mempool, the chain, the stored
\* snapshots and the next snapshot id unchanged
C16_NonceGate ==
    [][(/\ ret'.op = "send_transaction" /\ ret'.auto_mined
        /\ ret'.transaction.nonce # NextNonceBefore(ret'.transaction))
        => /\ ~ret'.ok
           /\ ret'.error = IF ret'.transaction.nonce < NextNonceBefore(ret'.transaction)
                           THEN "AutoMineNonceTooLow" ELSE "AutoMineNonceTooHigh"
           /\ ret'.nonces = Some([expected |-> NextNonceBefore(ret'.transaction),
                                  actual |-> ret'.transaction.nonce])
           /\ mem_pool' = mem_pool
           /\ blockchain' = blockchain
           /\ snapshots' = snapshots
           /\ next_snapshot_id' = next_snapshot_id]_vars

\* a transaction with the nonce of a pending transaction of its sender was
\* refused as too low, on an engine that stores a snapshot
C16_Witness ==
    /\ ret.op = "send_transaction" /\ ret.auto_mined
    /\ ret.error = "AutoMineNonceTooLow"
    /\ ret.nonces = Some([expected |-> 1, actual |-> 0])
    /\ HasPendingTransactions(mem_pool)
    /\ snapshots # EmptyMap

\* C17: the auto-mining flag starts as the configuration's auto_mine and
\* changes only through set_auto_mining (to the value passed) or reset (to the
\* configuration's); while it is off, a successful send_transaction only admits
\* the transaction to the mempool: the chain is unchanged, no snapshot is
\* created or consumed, transaction_result is absent and mining_results is empty
C17_ManualSendOnlyAdmits ==
    /\ is_auto_mining = initial_config.auto_mine
    /\ [][/\ (is_auto_mining' # is_auto_mining
                => \/ ret'.op = "set_auto_mining" /\ is_auto_mining' = ret'.enabled
                   \/ ret'.op = "reset" /\ is_auto_mining' = initial_config.auto_mine)
          /\ (ret'.op = "send_transaction" /\ ~is_auto_mining /\ ret'.ok
                => /\ mem_pool'.transactions
                        = Append(mem_pool.transactions, ret'.transaction)
                   /\ blockchain' = blockchain
                   /\ snapshots' = snapshots
                   /\ next_snapshot_id' = next_snapshot_id
                   /\ ret'.transaction_result = None
                   /\ ret'.mined = 0)]_vars

\* a transaction was admitted with auto-mining switched off on an instance that
\* was configured with auto-mining on, has mined a block and stores a snapshot
C17_Witness ==
    /\ ret.op = "send_transaction" /\ ret.ok /\ ~ret.auto_mined
    /\ initial_config.auto_mine
    /\ ~is_auto_mining
    /\ LastBlockNumberOf(blockchain) >= 1
    /\ snapshots # EmptyMap

----------------------------------------------------------------------------
(* Transactions from the mempool to a block: transactions are sent with     *)
(* auto-mining off, removed, mined by interval_mine (which may return an    *)
(* error), looked up by hash, and snapshots are made and reverted to        *)

MaxTxHeight == 2
MaxTxStateId == 4
MaxTxOps == 3

TxBounds == Bounds(MaxTxHeight, MaxTxStateId, MaxTxOps)

NextTx ==
    \/ DoSendTransaction(TxBounds, NoFailPlan)
    \/ DoRemovePendingTransaction(TxBounds)
    \/ DoIntervalMine(TxBounds, MineFailures)
    \/ DoTransactionByHash(TxBounds)
    \/ DoSetBalance(TxBounds, NoFailure)
    \/ DoMakeSnapshot(TxBounds)
    \/ DoRevertToSnapshot(TxBounds)

SpecTx == InitManual /\ [][NextTx]_vars

\* C18: transaction_by_hash reports a transaction of the mempool with
\* is_pending = true and no block data, and a transaction of a committed block
\* with is_pending = false and its block, the transaction being no longer in
\* the mempool; in no state is a transaction both in the mempool and in a block
\* of the chain
C18_AsStated ==
    /\ \A h \in MemPoolHashes(mem_pool) : BlocksHolding(blockchain, h) = {}
    /\ ret.op = "transaction_by_hash"
        => /\ ret.hash \in MemPoolHashes(mem_pool)
               => ret.result = Some([hash |-> ret.hash, block_data |-> None,
                                     is_pending |-> TRUE])
           /\ BlocksHolding(blockchain, ret.hash) # {}
               => /\ IsSome(ret.result)
                  /\ ~Unwrap(ret.result).is_pending
                  /\ IsSome(Unwrap(ret.result).block_data)
                  /\ Unwrap(Unwrap(ret.result).block_data) + 1
                         \in BlocksHolding(blockchain, ret.hash)
                  /\ ret.hash \notin MemPoolHashes(mem_pool)

----------------------------------------------------------------------------
(* Notifications: filters and subscriptions of every kind are added,        *)
(* transactions are admitted to the mempool, blocks are committed by        *)
(* interval_mine (which may return an error), time passes and filters       *)
(* are polled                                                               *)

MaxNotifyHeight == 2
MaxNotifyStateId == 3
MaxNotifyOps == 4

NotifyBounds == Bounds(MaxNotifyHeight, MaxNotifyStateId, MaxNotifyOps)

NextNotify ==
    \/ Tick
    \/ DoAddFilter(NotifyBounds)
    \/ DoSendTransaction(NotifyBounds, NoFailPlan)
    \/ DoIntervalMine(NotifyBounds, MineFailures)
    \/ DoGetFilterChanges(NotifyBounds)

SpecNotify == InitManual /\ [][NextNotify]_vars

\* the hash of the latest block of a chain
LastBlockHash(chain) == BlockHash(chain, LastBlockNumberOf(chain))

\* the callbacks of the sequence `callbacks` made for the filter `id`
CallbacksOf(callbacks, id) == SelectSeq(callbacks, LAMBDA c : c.filter_id = id)

\* C19: the notifications of a commit (subscriber callbacks and events
\* appended to accumulators) are emitted after the block is inserted and
\* before mine_and_commit_block returns: a call that notifies has inserted
\* the block it notifies of, and a call that returns success has notified every
\* block filter; and the subscriber callbacks of one commit are invoked in
\* increasing filter-id order
C19_AsStated ==
    [][ret'.op = "interval_mine"
        => /\ (\/ ret'.callbacks # <<>>
                \/ \E id \in DOMAIN filters \cap DOMAIN filters' :
                       filters'[id].events # filters[id].events)
               => /\ Len(blockchain') = Len(blockchain) + 1
                  /\ \A i \in DOMAIN ret'.callbacks :
                         ret'.callbacks[i].data = LastBlockHash(blockchain')
           /\ ret'.ok
               => \A id \in DOMAIN filters :
                      filters[id].kind = "NewHeads"
                          => IF filters[id].is_subscription
                             THEN CallbacksOf(ret'.callbacks, id) # <<>>
                             ELSE id \in DOMAIN filters'
                                      => filters'[id].events # filters[id].events
           /\ \A i, j \in DOMAIN ret'.callbacks :
                  i < j => ret'.callbacks[i].filter_id < ret'.callbacks[j].filter_id]_vars

\* the filter `id` of kind `kind` received the event `data` once: a subscription
\* by one callback and nothing appended, a filter by one append and no callback
ReceivedOnce(id, before, after, callbacks, data) ==
    IF before[id].is_subscription
    THEN /\ CallbacksOf(callbacks, id)
               = <<[filter_id |-> id, kind |-> before[id].kind, data |-> data]>>
         /\ id \in DOMAIN after
         /\ after[id].events = before[id].events
    ELSE /\ CallbacksOf(callbacks, id) = <<>>
         /\ id \in DOMAIN after => after[id].events = Append(before[id].events, data)

\* the filter `id` received nothing
ReceivedNothing(id, before, after, callbacks) ==
    /\ CallbacksOf(callbacks, id) = <<>>
    /\ id \in DOMAIN after => after[id].events = before[id].events

\* every filter of kind `kind` received `data` once, and no block filter or
\* pending-transaction filter of another kind received anything
EachReceivedOnce(kind, before, after, callbacks, data) ==
    /\ \A id \in DOMAIN before :
           IF before[id].kind = kind
           THEN ReceivedOnce(id, before, after, callbacks, data)
           ELSE before[id].kind # "Logs"
                    => ReceivedNothing(id, before, after, callbacks)
    /\ \A i \in DOMAIN callbacks : callbacks[i].filter_id \in DOMAIN before

NextFilterChanges(fs, id, t_now) == GetFilterChanges([filters |-> fs], id, t_now).events

\* the sequence holds the element
Contains(seq, x) == \E i \in DOMAIN seq : seq[i] = x

\* C21: a successful mempool admission puts the transaction in the mempool
\* and appends its hash to the accumulator of every existing pending-transaction
\* filter that is not a subscription, so that the next get_filter_changes on
\* the filter contains the hash; a rejected admission changes neither the
\* mempool nor any filter
C21_AdmissionReachesFilters ==
    [][ret'.op = "send_transaction" /\ ~ret'.auto_mined
        => IF ret'.ok
           THEN /\ ret'.transaction.hash \in MemPoolHashes(mem_pool')
                /\ ret'.transaction.hash \notin MemPoolHashes(mem_pool)
                /\ DOMAIN filters' = DOMAIN filters
                /\ \A id \in DOMAIN filters :
                       filters[id].kind = "NewPendingTransactions"
                           /\ ~filters[id].is_subscription
                       => /\ filters'[id].events
                                = Append(filters[id].events, ret'.transaction.hash)
                          /\ IsSome(NextFilterChanges(filters', id, now'))
                          /\ Contains(Unwrap(NextFilterChanges(filters', id, now')),
                                      ret'.transaction.hash)
           ELSE /\ mem_pool' = mem_pool
                /\ filters' = filters]_vars

\* a second transaction was admitted while a pending-transaction filter that
\* still holds the hash of the first was stored
C21_Witness ==
    /\ ret.op = "send_transaction" /\ ret.ok /\ ~ret.auto_mined
    /\ \E id \in DOMAIN filters :
           /\ filters[id].kind = "NewPendingTransactions"
           /\ ~filters[id].is_subscription
           /\ Len(filters[id].events) = 2
           /\ filters[id].events[2] = ret.transaction.hash

----------------------------------------------------------------------------
(* Reset: instances of every configuration that have mined blocks, hold     *)
(* pending transactions, snapshots, filters, irregular overrides (set_code) *)
(* impersonated accounts, and whose auto-mining flag was switched, are      *)
(* reset                                                                    *)

MaxResetHeight == 2
MaxResetStateId == 4
MaxResetOps == 4

ResetBounds == Bounds(MaxResetHeight, MaxResetStateId, MaxResetOps)

NextReset ==
    \/ DoSendTransaction(ResetBounds, NoFailPlan)
    \/ DoIntervalMine(ResetBounds, NoFailure)
    \/ DoSetCode(ResetBounds, {"a1"})
    \/ DoMakeSnapshot(ResetBounds)
    \/ DoAddFilter(ResetBounds)
    \/ DoSetAutoMining(ResetBounds)
    \/ DoImpersonateAccount(ResetBounds)
    \/ DoStopImpersonatingAccount(ResetBounds)
    \/ DoReset(ResetBounds)

SpecReset == Init /\ [][NextReset]_vars

\* C22: after a successful reset(None), from any reachable state, the last
\* block number is 0 and no filters, no snapshots and no irregular-state
\* overrides remain; the mempool is empty, the set of impersonated accounts is
\* empty and the auto-mining flag is back at its configured initial value
C22_ResetClearsEngine ==
    [][ret'.op = "reset"
        => /\ LastBlockNumberOf(blockchain') = 0
           /\ DOMAIN filters' = {}
           /\ DOMAIN snapshots' = {}
           /\ DOMAIN irregular_state' = {}
           /\ ~HasTransactions(mem_pool')
           /\ impersonated_accounts' = {}
           /\ is_auto_mining' = initial_config.auto_mine
           /\ initial_config' = initial_config]_vars

\* an instance with a mined block and a stored filter, whose auto-mining flag
\* was not the configured one, was reset
C22_Witness ==
    /\ ret.op = "reset"
    /\ ret.replaced.block_number > 0
    /\ ret.replaced.filters # {}
    /\ ret.replaced.is_auto_mining # initial_config.auto_mine
    /\ LastBlockNumberOf(blockchain) = 0
    /\ DOMAIN filters = {}
    /\ is_auto_mining = initial_config.auto_mine

----------------------------------------------------------------------------
(* Timestamps: claims checked on SpecMine, whose instances have both        *)
(* settings of allow_blocks_with_same_timestamp                             *)

\* C23: when mining with an explicitly requested timestamp,
\* mine_and_commit_block fails with TimestampLowerThanPrevious if the
\* requested timestamp is at most the latest block's, except that a requested
\* timestamp equal to the latest is accepted when blocks with the same
\* timestamp are allowed; when accepted, the new block time offset is the
\* requested timestamp minus the current time
C23_AsStated ==
    [][ret'.op = "mine_and_commit_block" /\ IsSome(ret'.timestamp)
        => LET requested == Unwrap(ret'.timestamp)
               latest == LastBlockOf(blockchain).timestamp
           IN  IF /\ requested <= latest
                  /\ ~(requested = latest /\ allow_blocks_with_same_timestamp)
               THEN ~ret'.ok /\ ret'.error = "TimestampLowerThanPrevious"
               ELSE ret'.ok => block_time_offset_seconds' = requested - now]_vars

\* C24: set_next_block_timestamp(t) fails with TimestampLowerThanPrevious
\* when t is lower than the latest block's timestamp, fails with
\* TimestampEqualsPrevious when t equals it and blocks with the same timestamp
\* are disallowed, and otherwise stores t as the next block timestamp and
\* returns it; on failure the stored next block timestamp is unchanged
C24_AsStated ==
    [][ret'.op = "set_next_block_timestamp"
        => LET t == ret'.timestamp
               latest == LastBlockOf(blockchain).timestamp
           IN  /\ IF t < latest
                  THEN ~ret'.ok /\ ret'.error = "TimestampLowerThanPrevious"
                  ELSE IF t = latest /\ ~allow_blocks_with_same_timestamp
                  THEN ~ret'.ok /\ ret'.error = "TimestampEqualsPrevious"
                  ELSE ret'.ok /\ next_block_timestamp' = Some(t)
               /\ ~ret'.ok => next_block_timestamp' = next_block_timestamp]_vars

----------------------------------------------------------------------------
(* State-mutating admin operations: claims checked on SpecRoot              *)

AdminOps == {"set_balance", "set_nonce", "set_code", "set_account_storage_slot"}

\* the field of the account that the admin operation `op` sets
ChangedField(op, account) ==
    CASE op = "set_balance" -> account.balance
      [] op = "set_nonce" -> account.nonce
      [] op = "set_code" -> account.code
      [] op = "set_account_storage_slot" -> account.storage

\* the state a read at the block spec `latest` runs on, in the engine `d`
\* (execute_in_block_context with the last block number)
StateAtLatest(d) == GetOrComputeState(d, LastBlockNumber(d)).state

\* C25: after a successful set_balance, set_nonce, set_code or
\* set_account_storage_slot the chain height is unchanged, the irregular state
\* has an override at the latest block number whose diff contains the change,
\* the new state is the cached state of the latest block number, and a read of
\* the changed value at latest (balance, get_transaction_count, get_code,
\* get_storage_at) returns the value that was set
C25_AdminOpRecordsChange ==
    [][ret'.op \in AdminOps /\ ret'.ok
        => LET n == LastBlockNumberOf(blockchain')
               a == ret'.address
           IN  /\ blockchain' = blockchain
               /\ n \in DOMAIN irregular_state'
               /\ a \in DOMAIN irregular_state'[n].diff
               /\ ChangedField(ret'.op, irregular_state'[n].diff[a]) = ret'.value
               /\ n \in DOMAIN block_number_to_state_id'
               /\ block_number_to_state_id'[n] = current_state_id'
               /\ current_state_id' > current_state_id
               /\ LruContains(block_state_cache', current_state_id')
               /\ ChangedField(ret'.op,
                               LruPeek(block_state_cache', current_state_id')[a])
                      = ret'.value
               /\ ChangedField(ret'.op, StateAtLatest(Self')[a]) = ret'.value]_vars

\* a storage slot was set on a chain with a mined block whose latest block
\* number already had an override for another account
C25_Witness ==
    /\ ret.op = "set_account_storage_slot" /\ ret.ok
    /\ LastBlockNumberOf(blockchain) >= 1
    /\ LastBlockNumberOf(blockchain) \in DOMAIN irregular_state
    /\ DOMAIN irregular_state[LastBlockNumberOf(blockchain)].diff = Address
    /\ StateAtLatest(Self)[ret.address].storage = ret.value

----------------------------------------------------------------------------
(* set_balance and the mempool: checked on SpecPool *)

\* the transactions of the mempool whose sender is not `address`, in order
OfOtherSenders(mp, address) == SelectSeq(mp.transactions, LAMBDA t : t.caller # address)

\* C26: a successful set_balance(a, v) reconciles the mempool against the
\* modified state before it returns: afterwards the mempool holds no
\* transaction of sender a whose up-front cost exceeds the balance v, and the
\* transactions of other senders are untouched
C26_AsStated ==
    [][ret'.op = "set_balance" /\ ret'.ok
        => /\ \A i \in DOMAIN mem_pool'.transactions :
                  mem_pool'.transactions[i].caller = ret'.address
                      => mem_pool'.transactions[i].value <= ret'.value
           /\ OfOtherSenders(mem_pool', ret'.address)
                  = OfOtherSenders(mem_pool, ret'.address)]_vars

----------------------------------------------------------------------------
(* Failed mining: checked on SpecMine, where each step of                   *)
(* mine_and_commit_block may return an error                                *)

\* C27: if mine_and_commit_block returns an error, whichever step failed, the
\* engine is unchanged: the blockchain, the mempool,
\* block_time_offset_seconds, next_block_base_fee_per_gas,
\* next_block_timestamp, the prev-randao generator, the filter accumulators
\* and the block-number-to-state-id index all equal their values before the call
C27_AsStated ==
    [][ret'.op \in {"mine_and_commit_block", "interval_mine"} /\ ~ret'.ok
        => /\ blockchain' = blockchain
           /\ mem_pool' = mem_pool
           /\ block_time_offset_seconds' = block_time_offset_seconds
           /\ next_block_base_fee_per_gas' = next_block_base_fee_per_gas
           /\ next_block_timestamp' = next_block_timestamp
           /\ prev_randao_generator' = prev_randao_generator
           /\ filters' = filters
           /\ block_number_to_state_id' = block_number_to_state_id]_vars

----------------------------------------------------------------------------
(* Reads: an engine with mined blocks (one of them perhaps left by a failed *)
(* mine_and_commit_block), pending transactions, a snapshot, filters and an *)
(* irregular override is read, at every block spec; the read is the last    *)
(* operation of the instance                                                *)

MaxReadHeight == 2
MaxReadStateId == 5
MaxReadOps == 4

ReadBounds == Bounds(MaxReadHeight, MaxReadStateId, MaxReadOps)
\* the operations that build the engine leave room for the read
ReadSetupBounds == Bounds(MaxReadHeight, MaxReadStateId, MaxReadOps - 1)

ReadOps ==
    AccountReads \cup {"run_call", "debug_trace_call", "debug_trace_transaction",
                       "mine_pending_block", "estimate_gas", "fee_history"}

\* a call that uses one unit of gas and succeeds with any gas limit
CheapCall ==
    [gas_limit |-> 1, minimum_cost |-> 0, gas_used |-> 1, succeeds |-> 1..2,
     failure |-> "Revert"]

\* no read has ended the instance yet
Unread == ret.op \notin ReadOps

NextRead ==
    \/ Unread /\ DoSendTransaction(ReadSetupBounds, NoFailPlan)
    \/ Unread /\ DoIntervalMine(ReadSetupBounds, MineFailures)
    \/ Unread /\ DoSetCode(ReadSetupBounds, {"a1"})
    \/ Unread /\ DoMakeSnapshot(ReadSetupBounds)
    \/ Unread /\ DoAddFilter(ReadSetupBounds)
    \/ Unread /\ DoRead(ReadBounds, {"a1"}, ReadFailures)
    \/ Unread /\ DoRunCall(ReadBounds, {Transaction(1, "a1", 0, 1, 1)}, ReadFailures)
    \/ Unread /\ DoDebugTraceTransaction(ReadBounds)
    \/ Unread /\ DoMinePendingBlock(ReadBounds, ReadFailures)
    \/ Unread /\ DoEstimateGas(ReadBounds, {CheapCall}, ReadFailures)
    \/ Unread /\ DoFeeHistory(ReadBounds, {2}, ReadFailures)

SpecRead == InitManual /\ [][NextRead]_vars

\* C28: run_call, estimate_gas, debug_trace_transaction, debug_trace_call,
\* fee_history and every read at any block spec including pending (balance,
\* get_code, get_storage_at, get_transaction_count, mine_pending_block) leave
\* the blockchain, the mempool, the irregular state, the snapshots, the
\* filters, block_time_offset_seconds, next_block_base_fee_per_gas,
\* next_block_timestamp and the prev-randao generator unchanged; the pending
\* block they may build is never inserted
C28_ReadsLeaveEngineUnchanged ==
    [][ret'.op \in ReadOps
        => /\ blockchain' = blockchain
           /\ mem_pool' = mem_pool
           /\ irregular_state' = irregular_state
           /\ snapshots' = snapshots
           /\ filters' = filters
           /\ block_time_offset_seconds' = block_time_offset_seconds
           /\ next_block_base_fee_per_gas' = next_block_base_fee_per_gas
           /\ next_block_timestamp' = next_block_timestamp
           /\ prev_randao_generator' = prev_randao_generator]_vars

\* the balance of an account was read at the pending block spec on an engine
\* with a mined block, a pending transaction of the account that the pending
\* block holds, a filter and a snapshot; the value read is the balance after
\* that transaction, and the chain still ends with the mined block
C28_Witness ==
    /\ ret.op = "balance" /\ ret.ok
    /\ ret.block_spec = Pending
    /\ LastBlockNumberOf(blockchain) >= 1
    /\ \E i \in DOMAIN mem_pool.transactions : mem_pool.transactions[i].caller = ret.address
    /\ ret.value # Some(StateAtLatest(Self)[ret.address].balance)

----------------------------------------------------------------------------
(* Gas estimation: calls are estimated at every block spec of an engine     *)
(* that mined a block, holds a pending transaction, or had its block gas    *)
(* limit changed (the pending block then has another gas limit than the     *)
(* latest); the estimation is the last operation of the instance            *)

EstimateGasLimit == 4
MaxEstimateHeight == 1
MaxEstimateStateId == 2
MaxEstimateOps == 2

EstimateBounds == Bounds(MaxEstimateHeight, MaxEstimateStateId, MaxEstimateOps)
EstimateSetupBounds == Bounds(MaxEstimateHeight, MaxEstimateStateId, MaxEstimateOps - 1)

InitEstimate ==
    InitWith(NewProviderData([block_gas_limit |-> EstimateGasLimit, coinbase |-> "c0",
                              auto_mine |-> FALSE,
                              allow_blocks_with_same_timestamp |-> TRUE,
                              hardfork |-> "Merge", min_gas_price |-> 0]))

NextEstimate ==
    \/ Unread /\ DoSendTransaction(EstimateSetupBounds, NoFailPlan)
    \/ Unread /\ DoIntervalMine(EstimateSetupBounds, NoFailure)
    \/ Unread /\ DoSetBlockGasLimit(EstimateSetupBounds)
    \/ Unread /\ DoEstimateGas(EstimateBounds, Calls(EstimateGasLimit), ReadFailures)

SpecEstimate == InitEstimate /\ [][NextEstimate]_vars

\* max(gas used by the trial, minimum cost + 1)
InitialEstimation(call) == Max(call.gas_used, call.minimum_cost + 1)

\* C29: estimate_gas returns an EstimateGasFailure, without running any
\* further execution, when the trial run reverts or halts; when the trial
\* succeeds it checks the limit initial = max(gas used by the trial, minimum
\* cost + 1) and returns initial if that run succeeds, and only otherwise runs
\* the binary search with lower bound initial and upper bound the block's gas
\* limit, so every returned estimate is >= minimum cost + 1
C29_EstimateGas ==
    (ret.op = "estimate_gas" /\ IsSome(ret.upper_bound))
    => IF ret.call.gas_limit \notin ret.call.succeeds
       THEN /\ ~ret.ok /\ ret.error = "EstimateGasFailure"
            /\ ret.runs = <<ret.call.gas_limit>>
       ELSE /\ ret.ok
            /\ Len(ret.runs) >= 2
            /\ ret.runs[1] = ret.call.gas_limit
            /\ ret.runs[2] = InitialEstimation(ret.call)
            /\ IF InitialEstimation(ret.call) \in ret.call.succeeds
               THEN /\ ~ret.searched
                    /\ ret.estimate = Some(InitialEstimation(ret.call))
                    /\ Len(ret.runs) = 2
               ELSE /\ ret.searched
                    /\ Unwrap(ret.estimate) >= InitialEstimation(ret.call)
                    /\ Unwrap(ret.estimate) <= Unwrap(ret.upper_bound)
                    /\ \A i \in 3..Len(ret.runs) :
                           /\ ret.runs[i] > InitialEstimation(ret.call)
                           /\ ret.runs[i] < Unwrap(ret.upper_bound)
            /\ Unwrap(ret.estimate) >= ret.call.minimum_cost + 1

\* an estimate the binary search corrected: the trial succeeded, the call
\* failed with the initial estimation, which the minimum cost had raised, and
\* the search ran the call at a midpoint
C29_Witness ==
    /\ ret.op = "estimate_gas" /\ ret.ok /\ ret.searched
    /\ ret.call.gas_used <= ret.call.minimum_cost
    /\ Len(ret.runs) >= 3
    /\ Unwrap(ret.estimate) \in ret.call.succeeds

----------------------------------------------------------------------------
(* Fee history: the history is asked of engines of every hardfork that       *)
(* mined blocks and hold pending transactions, for every block count and     *)
(* newest block spec; the request is the last operation of the instance      *)

MaxFeeHeight == 2
MaxFeeStateId == 4
MaxFeeOps == 4
MaxBlockCount == 4

FeeBounds == Bounds(MaxFeeHeight, MaxFeeStateId, MaxFeeOps)
FeeSetupBounds == Bounds(MaxFeeHeight, MaxFeeStateId, MaxFeeOps - 1)

InitFee ==
    \E hardfork \in {Hardforks[i] : i \in DOMAIN Hardforks} :
        InitWith(NewProviderData([block_gas_limit |-> 2, coinbase |-> "c0",
                                  auto_mine |-> FALSE,
                                  allow_blocks_with_same_timestamp |-> TRUE,
                                  hardfork |-> hardfork, min_gas_price |-> 0]))

NextFee ==
    \/ Unread /\ DoSendTransaction(FeeSetupBounds, NoFailPlan)
    \/ Unread /\ DoIntervalMine(FeeSetupBounds, NoFailure)
    \/ Unread /\ DoFeeHistory(FeeBounds, 0..MaxBlockCount, ReadFailures)

SpecFee == InitFee /\ [][NextFee]_vars

\* the number of the newest block of a fee history (pending is latest + 1)
NewestBlockNumber(block_spec) ==
    CASE block_spec.tag = "number" -> block_spec.number
      [] block_spec.tag = "earliest" -> 0
      [] block_spec.tag = "latest" -> LastBlockNumberOf(blockchain)
      [] block_spec.tag = "pending" -> LastBlockNumberOf(blockchain) + 1

\* the result holds the blocks oldest..newest, oldest = max(0, newest - block_count + 1):
\* one gas_used_ratio for each, and one base_fee_per_gas more, of the block
\* after newest
HoldsBlocksUpTo(result, block_count, newest) ==
    LET oldest == Max(0, newest - block_count + 1)
    IN  /\ result.oldest_block = oldest
        /\ Len(result.gas_used_ratio) = newest - oldest + 1
        /\ \A i \in DOMAIN result.gas_used_ratio :
               /\ result.gas_used_ratio[i].block_number = oldest + i - 1
               /\ (oldest + i - 1 <= LastBlockNumberOf(blockchain))
                  => /\ result.gas_used_ratio[i].gas_used = GasUsed(blockchain[oldest + i])
                     /\ result.gas_used_ratio[i].gas_limit = blockchain[oldest + i].gas_limit
        /\ Len(result.base_fee_per_gas) = Len(result.gas_used_ratio) + 1
        /\ \A i \in DOMAIN result.base_fee_per_gas :
               result.base_fee_per_gas[i].block_number = oldest + i - 1
        /\ result.base_fee_per_gas[Len(result.base_fee_per_gas)].block_number = newest + 1

\* C30: fee_history fails with UnmetHardfork when the active spec is before
\* London; otherwise, on a local chain with block_count >= 1, the result's
\* oldest block is max(0, newest - block_count + 1), gas_used_ratio has one
\* entry per block from oldest to newest, and base_fee_per_gas has exactly one
\* entry more than gas_used_ratio, the last being the base fee of the block
\* after newest
C30_FeeHistory ==
    ret.op = "fee_history"
    => IF HardforkRank(initial_config.hardfork) < HardforkRank("London")
       THEN ~ret.ok /\ ret.error = "UnmetHardfork"
       ELSE (ret.ok /\ ret.block_count >= 1)
            => HoldsBlocksUpTo(Unwrap(ret.result), ret.block_count,
                               NewestBlockNumber(ret.newest_block_spec))

\* the history of two blocks up to the pending one, on a chain with a mined
\* block: the oldest block is the mined one, the pending block holds a
\* transaction, and the last base fee is the one computed from the pending block
C30_Witness ==
    /\ ret.op = "fee_history" /\ ret.ok
    /\ ret.block_count = 2 /\ ret.newest_block_spec = Pending
    /\ LastBlockNumberOf(blockchain) >= 1
    /\ Unwrap(ret.result).oldest_block = LastBlockNumberOf(blockchain)
    /\ Unwrap(ret.result).gas_used_ratio[2].gas_used > 0
    /\ Unwrap(ret.result).base_fee_per_gas[3].of = "calculate_next_base_fee(pending)"

----------------------------------------------------------------------------
(* The napi BlockBuilder (rethnet_evm_napi/src/block/builder.rs): an object  *)
(* whose async methods lock a Mutex around an Option of the inner builder.   *)
(* A call is a future: it is created by the method call (pc "lock"), it      *)
(* acquires the Mutex and runs up to the await of the inner builder's        *)
(* method (pc "inner") or to its return, and it returns when the inner       *)
(* method does; the MutexGuard is dropped at the return.                     *)

Methods == {"add_transaction", "finalize", "abort"}

\* the methods that consume the builder
Consuming == {"finalize", "abort"}

\* a take that leaves the value in the Option
TakeLeavingValue(option) == option

\* Option::take: the value taken, and None left in its place
Take(option) == None

\* Option::as_mut: the Option keeps its value
AsMut(option) == option

\* whether the arguments of a call convert (transaction.try_into(), the
\* try_cast of the rewards); abort has none
Arguments(method) == IF method = "abort" THEN {TRUE} ELSE BOOLEAN

\* the call's future ends with the result, dropping the MutexGuard if it holds it
Returned(future, result) == [future EXCEPT !.pc = "done", !.result = result]

\* a method is called: its future waits for self.builder.lock()
CallMethod(call) ==
    \E method \in Methods : \E converts \in Arguments(method) :
        /\ futures[call].pc = "new"
        /\ futures' = [futures EXCEPT ![call] =
                           [pc |-> "lock", method |-> method, converts |-> converts,
                            result |-> "none"]]
        /\ UNCHANGED <<builder, mutex, acquired, inner_calls>>

\* the Option after the method looked at it: add_transaction uses as_mut,
\* finalize and abort take the inner builder
LeftBy(method, option) ==
    IF method \in Consuming THEN Take(option) ELSE AsMut(option)

\* the future of a call acquires the Mutex and runs to its next await or to
\* its return
Lock(call) ==
    /\ futures[call].pc = "lock"
    /\ mutex = 0
    /\ acquired' = Append(acquired, call)
    /\ builder' = LeftBy(futures[call].method, builder)
    /\ IF IsNone(builder)
       THEN /\ futures' = [futures EXCEPT ![call] = Returned(@, "InvalidArg")]
            /\ UNCHANGED <<mutex, inner_calls>>
       ELSE IF ~futures[call].converts
       THEN /\ futures' = [futures EXCEPT ![call] = Returned(@, "ConversionError")]
            /\ UNCHANGED <<mutex, inner_calls>>
       ELSE /\ futures' = [futures EXCEPT ![call].pc = "inner"]
            /\ mutex' = call
            /\ inner_calls' = Append(inner_calls,
                                     [call |-> call, method |-> futures[call].method])

\* the method of the inner builder returns, and so does the call
Return(call) ==
    \E result \in {"Ok", "GenericFailure"} :
        /\ futures[call].pc = "inner"
        /\ futures' = [futures EXCEPT ![call] = Returned(@, result)]
        /\ mutex' = 0
        /\ UNCHANGED <<builder, acquired, inner_calls>>

\* the ProviderData is not touched by the BlockBuilder
DataUnchanged ==
    /\ ret' = [op |-> "block_builder"]
    /\ UNCHANGED <<blockchain, irregular_state, mem_pool, beneficiary,
                   prev_randao_generator, block_time_offset_seconds, is_auto_mining,
                   next_block_base_fee_per_gas, next_block_timestamp, next_snapshot_id,
                   snapshots, filters, last_filter_id, impersonated_accounts,
                   min_gas_price, local_accounts,
                   block_state_cache, current_state_id, block_number_to_state_id,
                   initial_config, allow_blocks_with_same_timestamp, now,
                   minted_state_ids, returned_snapshot_ids, returned_filter_ids,
                   taken, ops>>

DoCallMethod == \E call \in CallIds : CallMethod(call) /\ DataUnchanged
DoLock == \E call \in CallIds : Lock(call) /\ DataUnchanged
DoReturn == \E call \in CallIds : Return(call) /\ DataUnchanged

InitBuilder == InitWith(NewProviderData(CHOOSE config \in Configs : TRUE))

NextBuilder == DoCallMethod \/ DoLock \/ DoReturn

SpecBuilder == InitBuilder /\ [][NextBuilder]_vars


\* the calls that acquired the Mutex after a finalize or an abort did
AfterConsumed ==
    {acquired[j] : j \in {j \in DOMAIN acquired :
        \E i \in 1..(j - 1) : futures[acquired[i]].method \in Consuming}}

\* the calls that reached the inner builder
ReachedInner == {inner_calls[i].call : i \in DOMAIN inner_calls}

\* C31: finalize and abort consume the builder: once either has been called,
\* whatever it returned, every later add_transaction, finalize or abort on
\* the object returns an InvalidArg error and never reaches the inner builder,
\* so the inner builder's finalize or abort runs at most once
C31_FinalizeAndAbortConsume ==
    /\ \A call \in AfterConsumed :
           /\ futures[call].pc = "done"
           /\ futures[call].result = "InvalidArg"
           /\ call \notin ReachedInner
    /\ Cardinality({i \in DOMAIN inner_calls : inner_calls[i].method \in Consuming}) <= 1

\* a finalize reached the inner builder and failed there; the abort and the
\* add_transaction called after it returned InvalidArg
C31_Witness ==
    /\ Len(acquired) = 3
    /\ futures[acquired[1]].method = "finalize"
    /\ futures[acquired[1]].result = "GenericFailure"
    /\ futures[acquired[2]].method = "abort"
    /\ futures[acquired[3]].method = "add_transaction"
    /\ futures[acquired[2]].result = "InvalidArg"
    /\ futures[acquired[3]].result = "InvalidArg"
    /\ Len(inner_calls) = 1


\* the calls that acquired the Mutex before any finalize or abort did, and the
\* first finalize or abort
UpToFirstConsuming ==
    {acquired[j] : j \in {j \in DOMAIN acquired :
        \A i \in 1..(j - 1) : futures[acquired[i]].method \notin Consuming}}

\* C40: for any interleaving of concurrent add_transaction, finalize and abort
\* calls on one BlockBuilder, the calls take effect one at a time in the order
\* they acquire the mutex: at most one call is inside the inner builder at any
\* moment, exactly the calls that acquire the mutex before the first finalize
\* or abort reach the inner builder, and of several concurrent finalize and
\* abort calls exactly one reaches it
C40_AsStated ==
    /\ Cardinality({call \in CallIds : futures[call].pc = "inner"}) <= 1
    /\ [i \in DOMAIN inner_calls |-> inner_calls[i].call]
           = [i \in 1..Cardinality(UpToFirstConsuming) |-> acquired[i]]
    /\ (\E i \in DOMAIN acquired : futures[acquired[i]].method \in Consuming)
       => Cardinality({i \in DOMAIN inner_calls :
                          inner_calls[i].method \in Consuming}) = 1

----------------------------------------------------------------------------
(* Block timestamps along the chain *)

\* C32: with blocks of equal timestamp disallowed, every committed block's
\* timestamp is strictly greater than its parent's (and never lower when they
\* are allowed), for any sequence of mine_and_commit_block with or without an
\* explicit timestamp, mine_and_commit_blocks with any interval including 0,
\* interval_mine, set_next_block_timestamp, increase_block_time and
\* snapshot/revert, at any wall-clock times
C32_AsStated ==
    \A n \in 2..Len(blockchain) :
        IF allow_blocks_with_same_timestamp
        THEN blockchain[n].timestamp >= blockchain[n - 1].timestamp
        ELSE blockchain[n].timestamp > blockchain[n - 1].timestamp

----------------------------------------------------------------------------
(* Irregular-state overrides: claims checked on SpecRoot *)

\* C33: after every successful admin state mutation, including a second or
\* later mutation at the same block number, the state root recorded in the
\* irregular-state override for the latest block number equals the state root
\* of the new current state that was added to the cache for that block number
C33_AsStated ==
    [][ret'.op \in AdminOps /\ ret'.ok
        => LET n == LastBlockNumberOf(blockchain')
           IN  /\ n \in DOMAIN irregular_state'
               /\ irregular_state'[n].state_root
                      = StateRoot(LruPeek(block_state_cache',
                                          block_number_to_state_id'[n]))]_vars

\* C34: set_account_storage_slot(address, index, value) is one logical write:
\* the storage change it records in the irregular override has as old value
\* the slot's value in the current state before the call and as new value the
\* given value, and the override's diff gains exactly one storage entry for
\* (address, index)
C34_AsStated ==
    [][ret'.op = "set_account_storage_slot" /\ ret'.ok
        => LET n == LastBlockNumberOf(blockchain')
               a == ret'.address
               before == IF n \in DOMAIN irregular_state
                         THEN irregular_state[n].slots ELSE EmptyMap
               after == irregular_state'[n].slots
           IN  /\ DOMAIN after = DOMAIN before \cup {a}
               /\ \A other \in DOMAIN before \ {a} : after[other] = before[other]
               /\ after[a].present_value = ret'.value
               /\ after[a].previous_or_original_value
                      = StateAtLatest(Self)[a].storage]_vars

----------------------------------------------------------------------------
(* mine_and_commit_blocks: the reservation of the remaining blocks *)

\* the engine and the blocks mined once the first block, the blocks of the
\* while loop and the block that follows the loop are in the chain
BeforeReservation(d, number_of_blocks, interval, t_now) ==
    MineOneIfLeft(
        MineWhilePending(MineFirstBlock(d, t_now, 0, "none"),
                         number_of_blocks, interval, t_now, 0, "none"),
        number_of_blocks, interval, t_now, 0, "none")

\* the blocks a call appended to the chain `before` that were reserved
ReservedBy(before, after) ==
    {i \in (Len(before) + 1)..Len(after) : after[i].reserved}

\* a successful mine_and_commit_blocks has just put reserved blocks in the chain
BulkReserved(r, before, after) == BulkSucceeded(r) /\ ReservedBy(before, after) # {}

\* what the reservation branch leaves behind, the timestamp of its last block
\* aside: the pool had nothing pending and at least 6 blocks were left, all of
\* them but one were reserved, the index maps the last reserved block's
\* number to the state before the reservation, and one more block was mined
ReservationHolds ==
    LET acc == BeforeReservation(Self, ret'.number_of_blocks, ret'.interval, now)
        remaining_blocks == ret'.number_of_blocks - Len(acc.mined)
        last_reserved == LastBlockNumberOf(blockchain') - 1
    IN  /\ ~HasPendingTransactions(acc.d.mem_pool)
        /\ remaining_blocks >= MINIMUM_RESERVABLE_BLOCKS
        /\ ReservedBy(blockchain, blockchain') =
               (Len(acc.d.blockchain) + 1)..(Len(acc.d.blockchain) + remaining_blocks - 1)
        /\ last_reserved = LastBlockNumber(acc.d) + remaining_blocks - 1
        /\ last_reserved \in DOMAIN block_number_to_state_id'
        /\ LruContains(block_state_cache', block_number_to_state_id'[last_reserved])
        /\ LruPeek(block_state_cache', block_number_to_state_id'[last_reserved]) =
               CurrentState(acc.d).state
        /\ ret'.mined = Len(acc.mined) + 1
        /\ Len(blockchain') = Len(acc.d.blockchain) + remaining_blocks
        /\ ~LastBlockOf(blockchain').reserved

----------------------------------------------------------------------------
(* The stored snapshots and the state index against the chain *)

\* Blockchain::revert_to_block returns an error for a block the chain does
\* not hold, and the expect of revert_to_snapshot panics on it
RevertToBlockFails(chain, block_number) == block_number > LastBlockNumberOf(chain)

\* C36: every stored snapshot's block number is at most the last block number,
\* the block numbers of the stored snapshots do not decrease as the snapshot
\* id grows, and so the revert_to_block of a revert_to_snapshot finds its
\* block for every stored snapshot
C36_SnapshotsWithinChain ==
    /\ \A id \in DOMAIN snapshots :
           /\ snapshots[id].block_number <= LastBlockNumberOf(blockchain)
           /\ ~RevertToBlockFails(blockchain, snapshots[id].block_number)
    /\ \A i, j \in DOMAIN snapshots :
           i < j => snapshots[i].block_number <= snapshots[j].block_number

\* C37: every block number of the index is at most the last block number, no
\* two block numbers of the index have the same StateId, and every StateId of
\* the index is at most current_state_id
C37_IndexWithinChain ==
    /\ \A n \in DOMAIN block_number_to_state_id :
           /\ n <= LastBlockNumberOf(blockchain)
           /\ block_number_to_state_id[n] <= current_state_id
    /\ \A m, n \in DOMAIN block_number_to_state_id :
           m # n => block_number_to_state_id[m] # block_number_to_state_id[n]


\* a revert_to_snapshot has returned true, an earlier snapshot is still stored,
\* and the chain is higher than the block that snapshot was made at
C36_Witness ==
    /\ Reverted(ret)
    /\ ret.result
    /\ \E id \in DOMAIN snapshots :
           snapshots[id].block_number < LastBlockNumberOf(blockchain)

\* a revert_to_snapshot has returned true with the cache full, and the index
\* it restored holds the last block number and a lower one
C37_Witness ==
    /\ Reverted(ret)
    /\ ret.result
    /\ LastBlockNumberOf(blockchain) \in DOMAIN block_number_to_state_id
    /\ \E n \in DOMAIN block_number_to_state_id : n < LastBlockNumberOf(blockchain)

----------------------------------------------------------------------------
(* revert_to_snapshot: what it leaves alone *)

MaxKeepHeight == 2
MaxKeepStateId == 4
MaxKeepOps == 4

KeepBounds == Bounds(MaxKeepHeight, MaxKeepStateId, MaxKeepOps)

\* instances before London, where set_min_gas_price is supported
InitKeep ==
    \E auto_mine \in BOOLEAN :
        InitWith(NewProviderData([block_gas_limit |-> 2, coinbase |-> "c0",
                                  auto_mine |-> auto_mine,
                                  allow_blocks_with_same_timestamp |-> FALSE,
                                  hardfork |-> "Berlin", min_gas_price |-> 0]))

NextKeep ==
    \/ DoMakeSnapshot(KeepBounds)
    \/ DoRevertToSnapshot(KeepBounds)
    \/ DoIntervalMine(KeepBounds, NoFailure)
    \/ DoSendTransaction(KeepBounds, NoFailPlan)
    \/ DoSetBalance(KeepBounds, NoFailure)
    \/ DoAddFilter(KeepBounds)
    \/ DoSetAutoMining(KeepBounds)
    \/ DoImpersonateAccount(KeepBounds)
    \/ DoSetMinGasPrice(KeepBounds)

SpecKeep == InitKeep /\ [][NextKeep]_vars

\* C39: revert_to_snapshot, whatever it returns, leaves the filters,
\* last_filter_id, the auto-mining flag, the impersonated accounts, the local
\* accounts, min_gas_price, next_snapshot_id, current_state_id and the state
\* cache as they were; when it returns false it also leaves the chain, the
\* mempool, the irregular state, the coinbase, block_time_offset_seconds and
\* the block-number-to-state-id index as they were
C39_RevertLeavesTheRest ==
    [][Reverted(ret') =>
          /\ filters' = filters
          /\ last_filter_id' = last_filter_id
          /\ is_auto_mining' = is_auto_mining
          /\ impersonated_accounts' = impersonated_accounts
          /\ local_accounts' = local_accounts
          /\ min_gas_price' = min_gas_price
          /\ next_snapshot_id' = next_snapshot_id
          /\ current_state_id' = current_state_id
          /\ block_state_cache' = block_state_cache
          /\ (~ret'.result =>
                  /\ blockchain' = blockchain
                  /\ mem_pool' = mem_pool
                  /\ irregular_state' = irregular_state
                  /\ beneficiary' = beneficiary
                  /\ block_time_offset_seconds' = block_time_offset_seconds
                  /\ block_number_to_state_id' = block_number_to_state_id)]_vars


\* a revert_to_snapshot has returned true with a filter installed and with a
\* state minted since the snapshot: the restored index holds lower StateIds
\* only, and current_state_id and the filter are as they were
C39_Witness ==
    /\ Reverted(ret)
    /\ ret.result
    /\ DOMAIN filters # {}
    /\ \A n \in DOMAIN block_number_to_state_id :
           block_number_to_state_id[n] < current_state_id
    /\ LastBlockNumberOf(blockchain) = Unwrap(ret.snapshot).block_number

----------------------------------------------------------------------------
(* Auto-mined sends that fail while mining: what the filters keep *)

MaxRollbackHeight == 2
MaxRollbackStateId == 4
MaxRollbackOps == 4

RollbackBounds == Bounds(MaxRollbackHeight, MaxRollbackStateId, MaxRollbackOps)

\* no error, or an error of mine_block in one of the first calls of
\* mine_and_commit_block
RollbackPlans == NoFailPlan \cup [at : 1..MaxFailAt, step : {"mine_block"}]

NextRollback ==
    \/ DoSetAutoMining(RollbackBounds)
    \/ DoAddFilter(RollbackBounds)
    \/ DoSendTransaction(RollbackBounds, RollbackPlans)

SpecRollback == InitManual /\ [][NextRollback]_vars

\* the call that has just returned was an auto-mined send_transaction whose
\* transaction was admitted and whose mining returned an error, so that the
\* engine was reverted to the snapshot the call had made
RolledBack(r) ==
    /\ r.op = "send_transaction"
    /\ r.auto_mined
    /\ ~r.ok
    /\ r.error \in MineFailures

\* the events a call appended to the accumulator of a filter
AppendedEvents(before, after) == SubSeq(after.events, Len(before.events) + 1, Len(after.events))

\* the hashes of the blocks of a chain
BlockHashes(chain) == {BlockHash(chain, n) : n \in 0..LastBlockNumberOf(chain)}

\* C38 as stated: after an auto-mined send_transaction that failed once its
\* transaction was admitted, no pending-transaction filter has received the
\* hash of the transaction and no block filter the hash of a block that the
\* revert has removed
C38_AsStated ==
    [][RolledBack(ret') =>
          \A id \in DOMAIN filters \cap DOMAIN filters' :
              LET events == AppendedEvents(filters[id], filters'[id])
              IN  /\ filters'[id].kind = "NewPendingTransactions" =>
                         ~Contains(events, ret'.transaction.hash)
                  /\ filters'[id].kind = "NewHeads" =>
                         \A i \in DOMAIN events : events[i] \in BlockHashes(blockchain')]_vars

\* after such a send the chain and the mempool are as they were before it
C38_ChainAndPoolRolledBack ==
    [][RolledBack(ret') => blockchain' = blockchain /\ mem_pool' = mem_pool]_vars
====
